---------------------------- MODULE Spec2Model ----------------------------
(***************************************************************************)
(* Model of the BCOS orchestration engine: the orchestrator's run loop     *)
(* (core/orchestrator.py), the state manager (core/state_manager.py), the  *)
(* executor (core/executor.py) and the validator (core/validator.py).      *)
(*                                                                         *)
(* Opaque payloads (skill results, language-model answers) are abstracted  *)
(* to tags that keep exactly what the code inspects: truthiness, type,     *)
(* emptiness, and the 'success' / 'error' / 'data' keys.  Keys that the   *)
(* code writes and never reads ('task_id', 'method') are left out.         *)
(***************************************************************************)
EXTENDS Integers, Sequences, FiniteSets, TLC

(***************************************************************************)
(* Bounds of the model.                                                    *)
(***************************************************************************)
MaxTasks == 2        \* tasks planned in one run, both phases together
MaxIds == 2          \* distinct task ids the planner draws from
MaxDeps == 1         \* dependencies the planner lists in one run, all tasks together
MaxStepsBound == 2   \* largest configured max_steps

(***************************************************************************)
(* Values.                                                                 *)
(***************************************************************************)
None == "None"
EmptyDict == "{}"    \* a dict without keys
Dict == "dict"       \* any dict with at least one key
EmptyDataDict == "{'success': True, 'data': ''}"   \* this dict of two keys
EmptyMap == [k \in {} |-> EmptyDict]

AllIds == <<"phase1_task_1", "phase1_task_2", "phase2_task_1", "phase2_task_2">>
TaskIds == {AllIds[i] : i \in 1..MaxIds}

AnalysisModes == {"business_overview", "frameworks", "full"}

\* Skill identifiers the planner names in a plan of the phase: for each
\* phase one skill the validator checks by heuristics and one it sends to the
\* language model; and None, the JSON null of a language-model plan, which
\* Task(...) takes as it comes.
PlannerSkills(phase) ==
    IF phase = "phase1"
    THEN {"company-intelligence", "business-model-canvas", None}
    ELSE {"pestel-analyzer", "swot-analyzer", None}

\* What a skill module's execute() does when called; not_found when no
\* module of that name can be loaded.
SkillOutcomes == {"data", "empty_data", "unsuccessful", "raises", "not_found"}
\* What the language-model fallback does when the skill gave nothing.
FallbackOutcomes == {"json", "llm_error", "escapes"}
\* The fallback is called only then.
FallbackCalls(outcome) ==
    IF outcome \in {"raises", "not_found"} THEN FallbackOutcomes ELSE {None}
\* What the language-model validator answers: is_valid true; is_valid false
\* with a feedback text, with feedback '' or absent, with feedback null; or
\* the call or the parsing of its reply fails.
LlmAnswers == {"valid", "invalid", "invalid_no_feedback", "invalid_null_feedback",
               "llm_error"}

\* Python `sub in skill` on the skill identifiers of the model.
In(sub, skill) ==
    \/ sub = skill
    \/ <<sub, skill>> \in { <<"swot", "swot-analyzer">>,
                            <<"value-chain", "value-chain-mapper">>,
                            <<"org-structure", "org-structure-analyzer">>,
                            <<"porter", "porters-five-forces">>,
                            <<"bcg", "bcg-matrix">>,
                            <<"blue-ocean", "blue-ocean-strategy">>,
                            <<"pestel", "pestel-analyzer">> }

(***************************************************************************)
(* core/state_manager.py                                                   *)
(***************************************************************************)
\* StateManager.__init__: the six Phase-1 slots, each an empty dict.
InitPhase1Context ==
    [k \in {"company_intelligence", "business_model_canvas", "value_chain",
            "org_structure", "market_intelligence", "competitor_intelligence"}
        |-> EmptyDict]

\* StateManager.__init__: the seven Phase-2 slots, each an empty dict.
InitPhase2Context ==
    [k \in {"swot", "porters_five_forces", "bcg_matrix", "blue_ocean",
            "pestel", "competitive_strategy", "sales_intelligence"}
        |-> EmptyDict]

\* A task without a result (result = None).
NoResult == [success |-> FALSE, data |-> None, error |-> None]

\* Task(...) as the planner constructs it: status pending, no result, no error.
Task(id, phase, skill, dependencies) ==
    [id |-> id, phase |-> phase, skill |-> skill, dependencies |-> dependencies,
     status |-> "pending", result |-> NoResult, error |-> None]

\* StateManager.add_task: the task is appended, whatever its id.
add_task(ts, task) == Append(ts, task)

\* for task in tasks: self.state.add_task(task)
RECURSIVE add_tasks(_, _)
add_tasks(ts, planned) ==
    IF planned = <<>> THEN ts
    ELSE add_tasks(add_task(ts, Head(planned)), Tail(planned))

\* StateManager.get_task: index of the first task with this id, 0 when none.
get_task(ts, task_id) ==
    IF \E i \in 1..Len(ts) : ts[i].id = task_id
    THEN CHOOSE i \in 1..Len(ts) :
            /\ ts[i].id = task_id
            /\ \A j \in 1..(i - 1) : ts[j].id # task_id
    ELSE 0

\* StateManager.update_task_status: no transition is refused.
update_task_status(ts, task_id, status, result, error) ==
    LET i == get_task(ts, task_id) IN
    IF i = 0 THEN ts
    ELSE [ts EXCEPT ![i] =
            [@ EXCEPT !.status = status,
                      !.result = IF result # NoResult THEN result ELSE @,
                      !.error = IF error # None /\ error # "" THEN error ELSE @]]

\* An optional datetime: None, or the clock value it was set at.
Unset == <<>>
At(t) == <<t>>

\* Task(...): started_at = None, completed_at = None.
NoStamps == [started_at |-> Unset, completed_at |-> Unset]

\* started_at is assigned at every update to in_progress.
stamp_task_status_Restamps(st, ts, task_id, status, t) ==
    LET i == get_task(ts, task_id) IN
    IF i = 0 THEN st
    ELSE [st EXCEPT ![i] =
            IF status = "in_progress"
            THEN [@ EXCEPT !.started_at = At(t)]
            ELSE IF status \in {"completed", "failed"}
            THEN [@ EXCEPT !.completed_at = At(t)]
            ELSE @]

\* StateManager.update_task_status, the two timestamps: `ts` are the tasks
\* before the call, `t` is datetime.now().
stamp_task_status(st, ts, task_id, status, t) ==
    LET i == get_task(ts, task_id) IN
    IF i = 0 THEN st
    ELSE [st EXCEPT ![i] =
            IF status = "in_progress" /\ @.started_at = Unset
            THEN [@ EXCEPT !.started_at = At(t)]
            ELSE IF status \in {"completed", "failed"}
            THEN [@ EXCEPT !.completed_at = At(t)]
            ELSE @]

CountStatus(ts, status) == Cardinality({i \in 1..Len(ts) : ts[i].status = status})

\* StateManager.get_summary
get_summary(ts, phase) ==
    [current_phase |-> phase,
     tasks |-> [total |-> Len(ts),
                completed |-> CountStatus(ts, "completed"),
                failed |-> CountStatus(ts, "failed"),
                pending |-> CountStatus(ts, "pending")]]

\* d.isoformat() if d else None: a JSON string or null.
isoformat_or_null(d) == IF d = Unset THEN <<>> ELSE <<"iso", d[1]>>

\* Task.to_dict
to_dict(task, stamp) ==
    [id |-> task.id, phase |-> task.phase, skill |-> task.skill,
     dependencies |-> task.dependencies, status |-> task.status,
     result |-> task.result, error |-> task.error,
     started_at |-> isoformat_or_null(stamp.started_at),
     completed_at |-> isoformat_or_null(stamp.completed_at)]

\* StateManager.save_state: the JSON document written. The three company
\* strings and the two phase completion times are left out.
save_state(ts, st, p1, p2, phase, started) ==
    [phase1_context |-> p1,
     phase2_context |-> p2,
     tasks |-> [i \in 1..Len(ts) |-> to_dict(ts[i], st[i])],
     current_phase |-> phase,
     started_at |-> isoformat_or_null(started)]

\* The file json.dump leaves when it raises: the text up to the value it
\* could not write, which is no JSON document.
Truncated == [truncated |-> TRUE]

\* d.get(key, default)
Get(d, key, default) == IF key \in DOMAIN d THEN d[key] ELSE default

\* StateManager.load_state: the fields it assigns. started_at and the
\* timestamps of the rebuilt tasks are not read from the file.
load_state(file) ==
    LET saved == Get(file, "tasks", <<>>) IN
    [phase1_context |-> Get(file, "phase1_context", EmptyMap),
     phase2_context |-> Get(file, "phase2_context", EmptyMap),
     current_phase |-> Get(file, "current_phase", "phase1"),
     tasks |-> [i \in 1..Len(saved) |->
                  [id |-> saved[i].id, phase |-> saved[i].phase,
                   skill |-> saved[i].skill,
                   dependencies |-> saved[i].dependencies,
                   status |-> saved[i].status,
                   result |-> saved[i].result,
                   error |-> saved[i].error]],
     stamps |-> [i \in 1..Len(saved) |-> NoStamps]]

(***************************************************************************)
(* core/executor.py                                                        *)
(***************************************************************************)
\* Executor.reset_loop_detection: self.recent_actions afterwards
reset_loop_detection == <<>>

\* Executor._execute_skill: the skill's return value, None when the module
\* is missing or its execute() raised (the exception is logged and swallowed).
execute_skill(outcome) ==
    CASE outcome = "data" -> Dict           \* {'success': True, 'data': {...}, ...}
      [] outcome = "unsuccessful" -> Dict   \* {'success': False, 'error': '...'}
      [] outcome = "empty_data" -> EmptyDataDict
      [] OTHER -> None

\* Executor._llm_fallback_execution: the parsed JSON object with '_fallback'
\* added, or the error dict built in its own handler; a dict with keys in
\* both cases.
llm_fallback_execution(fallback) == Dict

\* Executor.execute_task
execute_task(outcome, fallback) ==
    LET skill_result == execute_skill(outcome) IN
    IF skill_result # None
    THEN [success |-> TRUE, data |-> skill_result, error |-> None]
    ELSE IF fallback = "escapes"
         THEN [success |-> FALSE, data |-> None, error |-> "exception"]
         ELSE [success |-> TRUE, data |-> llm_fallback_execution(fallback), error |-> None]

(***************************************************************************)
(* core/validator.py                                                       *)
(***************************************************************************)
\* Validator._should_use_llm_validation
should_use_llm_validation(skill) ==
    skill \in {"business-model-canvas", "value-chain-mapper", "swot-analyzer",
               "porters-five-forces", "bcg-matrix"}

\* The language model is asked only about these skills.
LlmCalls(skill) == IF should_use_llm_validation(skill) THEN LlmAnswers ELSE {None}

\* Validator._heuristic_validate: <<is_valid, feedback>>
heuristic_validate(result) ==
    IF result.error # None
    THEN <<FALSE, "Task reported error">>
    ELSE IF ~result.success
    THEN <<FALSE, "Task reported unsuccessful completion">>
    ELSE IF result.data = EmptyDict
    THEN <<FALSE, "Task data is empty">>
    ELSE <<TRUE, "Task completed successfully">>

\* The exception a call raises, where a pair is returned otherwise.
Raised == <<"TypeError">>

\* Validator._llm_validate. The prompt is built before the try: with
\* "not_json" the result holds a value json.dumps cannot encode.
llm_validate(result, answer) ==
    CASE answer = "not_json" -> Raised
      [] answer = "valid" -> <<TRUE, "ok">>
      [] answer = "invalid" -> <<FALSE, "rejected">>
      [] answer = "invalid_no_feedback" -> <<FALSE, "">>
      [] answer = "invalid_null_feedback" -> <<FALSE, None>>
      [] OTHER -> heuristic_validate(result)

\* Validator.validate_task_completion
validate_task_completion(skill, result, answer) ==
    IF should_use_llm_validation(skill)
    THEN llm_validate(result, answer)
    ELSE heuristic_validate(result)

\* The dependencies are not looked at.
check_dependencies_met_Unchecked(task, completed) == TRUE

\* Validator.check_dependencies_met
check_dependencies_met(task, completed) ==
    \A dep_id \in task.dependencies : dep_id \in completed

(***************************************************************************)
(* core/orchestrator.py: result routing                                    *)
(***************************************************************************)
Phase1Slot(skill) ==
    CASE In("company-intelligence", skill) -> "company_intelligence"
      [] In("business-model-canvas", skill) -> "business_model_canvas"
      [] In("value-chain", skill) -> "value_chain"
      [] In("org-structure", skill) -> "org_structure"
      [] In("market-intelligence", skill) -> "market_intelligence"
      [] In("competitor-intelligence", skill) -> "competitor_intelligence"
      [] OTHER -> skill

Phase2Slot(skill) ==
    CASE In("swot", skill) -> "swot"
      [] In("porter", skill) -> "porters_five_forces"
      [] In("bcg", skill) -> "bcg_matrix"
      [] In("blue-ocean", skill) -> "blue_ocean"
      [] In("pestel", skill) -> "pestel"
      [] In("competitive-strategy", skill) -> "competitive_strategy"
      [] In("sales-intelligence", skill) -> "sales_intelligence"
      [] OTHER -> skill

\* result.get('data', {})
ResultData(result) == IF result.data = None THEN EmptyDict ELSE result.data

Put(ctx, key, value) ==
    [k \in DOMAIN ctx \cup {key} |-> IF k = key THEN value ELSE ctx[k]]

store_phase1_result(ctx, skill, result) == Put(ctx, Phase1Slot(skill), ResultData(result))

store_phase2_result(ctx, skill, result) == Put(ctx, Phase2Slot(skill), ResultData(result))

(***************************************************************************)
(* core/planner.py: the plans the planner may return.  The language-model  *)
(* path builds Task objects from whatever JSON array comes back, so ids    *)
(* may repeat and dependencies may name any id.                            *)
(***************************************************************************)
\* The ids the default plans give their tasks, in order.
PhaseIds(phase) ==
    IF phase = "phase1"
    THEN <<"phase1_task_1", "phase1_task_2", "phase1_task_3", "phase1_task_4">>
    ELSE <<"phase2_task_1", "phase2_task_2", "phase2_task_3", "phase2_task_4">>

UsedIds(ts) == {ts[i].id : i \in 1..Len(ts)}

\* The ids a plan of the phase names, as ids of its tasks or as
\* dependencies: those of the registry and ids of the phase, MaxIds in all.
PlanIds(registry, phase) ==
    UsedIds(registry) \cup
    {PhaseIds(phase)[k] : k \in 1..(MaxIds - Cardinality(UsedIds(registry)))}

DepSets(registry, phase) ==
    {d \in SUBSET PlanIds(registry, phase) : Cardinality(d) <= MaxDeps}

PlannedTasks(registry, phase) ==
    {Task(id, phase, skill, deps) :
        id \in PlanIds(registry, phase), skill \in PlannerSkills(phase),
        deps \in DepSets(registry, phase)}

RECURSIVE DepCount(_)
DepCount(ts) ==
    IF ts = <<>> THEN 0
    ELSE Cardinality(Head(ts).dependencies) + DepCount(Tail(ts))

\* Ids are compared for equality only, so plans that differ by a renaming of
\* ids behave alike: keep the one in which a task carries an id that
\* occurred before it, in the registry or in the plan, or the first id of
\* the phase that did not.
FirstOccurrenceOrder(ts, phase, id) ==
    \/ id \in UsedIds(ts)
    \/ \E k \in 1..Len(PhaseIds(phase)) :
          /\ id = PhaseIds(phase)[k]
          /\ \A j \in 1..(k - 1) : PhaseIds(phase)[j] \in UsedIds(ts)

\* The plans of at most n tasks, built task by task.
RECURSIVE PlansUpTo(_, _, _)
PlansUpTo(registry, phase, n) ==
    IF n = 0 THEN {<<>>}
    ELSE LET shorter == PlansUpTo(registry, phase, n - 1)
             longest == {p \in shorter : Len(p) = n - 1}
             budget == MaxDeps - DepCount(registry)
         IN shorter \cup
            {q \in {Append(p, t) : p \in longest, t \in PlannedTasks(registry, phase)} :
                /\ FirstOccurrenceOrder(registry \o SubSeq(q, 1, n - 1), phase, q[n].id)
                /\ DepCount(q) <= budget}

Plans(registry, phase, n) == PlansUpTo(registry, phase, n)

(***************************************************************************)
(* utils/progress_tracker.py and the estimate the application builds the   *)
(* tracker with.                                                           *)
(***************************************************************************)
MaxFrameworks == 2   \* frameworks selected in config['scope']
MaxClock == 1        \* latest instant the clock reaches in a run

Phase1Estimate == 7        \* phase1_tasks = 7
TasksPerFramework == 2     \* len(frameworks) * 2
FrameworksFallback == 4    \* phase2_tasks if phase2_tasks > 0 else 4
SessionTasksPerFramework == 5   \* total_tasks = len(frameworks) * 5

ProgressStatus == {"pending", "in_progress", "completed", "failed"}

\* app.estimate_total_tasks, `frameworks` being len(phase2_frameworks).
estimate_total_tasks(mode, frameworks) ==
    LET phase2_tasks == frameworks * TasksPerFramework
    IN  CASE mode = "business_overview" -> Phase1Estimate
          [] mode = "frameworks" ->
                IF phase2_tasks > 0 THEN phase2_tasks ELSE FrameworksFallback
          [] OTHER -> Phase1Estimate + phase2_tasks

\* No ProgressTracker was built.
NoTracker == [built |-> FALSE]

\* ProgressTracker.__init__; an event is kept as its status, self.tasks as
\* the ids whose start_time is set, each with its start_time.
ProgressTracker(total_tasks) ==
    [total_tasks |-> total_tasks, events |-> <<>>, started |-> {},
     task_durations |-> <<>>, completed_tasks |-> 0, failed_tasks |-> 0]

\* Seconds that pass between two events given to a tracker.
Elapsed == {0, 90}

\* task['start_time'] is set
HasStarted(t, task_id) == \E s \in t.started : s.task_id = task_id

\* task['start_time']
start_time(t, task_id) ==
    (CHOOSE s \in t.started : s.task_id = task_id).start_time

\* ProgressTracker.emit; `timestamp` is event.timestamp, the clock read when
\* the event is built.
emit(t, task_id, status, timestamp) ==
    [t EXCEPT !.events = Append(@, status),
              !.started =
                  IF status = "in_progress" /\ ~HasStarted(t, task_id)
                  THEN @ \cup {[task_id |-> task_id, start_time |-> timestamp]}
                  ELSE @,
              !.task_durations =
                  IF status = "completed" /\ HasStarted(t, task_id)
                  THEN Append(@, timestamp - start_time(t, task_id)) ELSE @,
              !.completed_tasks = IF status = "completed" THEN @ + 1 ELSE @,
              !.failed_tasks = IF status = "failed" THEN @ + 1 ELSE @]

\* A quotient of two integers, kept exact.
Ratio(num, den) == [num |-> num, den |-> den]
AtMost(ratio, n) == ratio.num <= n * ratio.den

\* sum(self.task_durations)
RECURSIVE SumSeq(_)
SumSeq(seq) == IF seq = <<>> THEN 0 ELSE Head(seq) + SumSeq(Tail(seq))

\* ProgressTracker._format_duration, the numbers of the text it builds.
format_duration(seconds) ==
    LET whole == seconds.num \div seconds.den IN
    IF whole < 60
    THEN [text |-> "seconds", hours |-> 0, minutes |-> 0, seconds |-> whole]
    ELSE IF whole < 3600
    THEN [text |-> "minutes seconds", hours |-> 0,
          minutes |-> whole \div 60, seconds |-> whole % 60]
    ELSE [text |-> "hours minutes", hours |-> whole \div 3600,
          minutes |-> (whole % 3600) \div 60, seconds |-> 0]

\* ProgressTracker.get_estimated_time_remaining
get_estimated_time_remaining(t) ==
    IF t.task_durations = <<>>
    THEN [text |-> "Calculating..."]
    ELSE LET avg_duration == Ratio(SumSeq(t.task_durations), Len(t.task_durations))
             remaining_tasks == t.total_tasks - t.completed_tasks - t.failed_tasks
             estimated_seconds ==
                 Ratio(avg_duration.num * remaining_tasks, avg_duration.den)
         IN  IF estimated_seconds.num < 0
             THEN [text |-> "Almost done..."]
             ELSE format_duration(estimated_seconds)

\* ProgressTracker.get_status: the keys computed from the counters.
get_status(t) ==
    LET total_completed == t.completed_tasks + t.failed_tasks
    IN  [total_tasks |-> t.total_tasks,
         completed |-> t.completed_tasks,
         failed |-> t.failed_tasks,
         in_progress |-> total_completed < t.total_tasks,
         progress_percent |->
             IF t.total_tasks > 0
             THEN Ratio(total_completed * 100, t.total_tasks)
             ELSE Ratio(0, 1),
         eta |-> get_estimated_time_remaining(t)]

(***************************************************************************)
(* State.                                                                  *)
(***************************************************************************)
VARIABLES
    analysis_mode,       \* config['analysis_mode']
    max_steps,           \* orchestrator.max_steps
    progress_callback,   \* orchestrator.progress_callback is not None
    entry,               \* the method the caller calls: run or run_phase2
    restored,            \* history: how many tasks load_state put in the registry
    current_step,        \* orchestrator.current_step
    tasks,               \* state.tasks
    phase1_context,      \* state.phase1_context
    phase2_context,      \* state.phase2_context
    current_phase,       \* state.current_phase
    pc,                  \* position of run()
    plan,                \* local `tasks` of the running phase
    idx,                 \* position of the for loop in `plan`
    completed_task_ids,  \* local list of the running phase
    outcome,             \* what the skill of the current task did
    result,              \* local `result` of the loop body
    envelope,            \* value returned by run()
    events,              \* calls made to progress_callback, in order
    ran,                 \* history: tasks handed to the executor, in order
    tracker,             \* the application's ProgressTracker
    recent_actions,      \* executor.recent_actions
    recorded,            \* history: signatures given to detect_loop since the reset
    detected,            \* history: what the latest detect_loop call returned
    issued,              \* history: actions the running skill performed, in order
    stamps,              \* started_at / completed_at of state.tasks, by position
    started_at,          \* state.started_at
    now,                 \* the clock read by datetime.now()
    files,               \* the state files written, in order
    min_confidence,      \* truth_engine.min_confidence
    sources_data,        \* argument of verify_claim
    fact,                \* VerifiedFact returned by verify_claim
    facts,               \* argument of VerifiedDataset.from_facts
    dataset,             \* VerifiedDataset returned by from_facts
    datasets,            \* the caller's list given to cross_reference
    passed,              \* history: that list as it was when passed
    manifest             \* session_manager.manifest

vars == <<analysis_mode, max_steps, progress_callback, entry, restored, current_step, tasks, phase1_context,
          phase2_context, current_phase, pc, plan, idx, completed_task_ids,
          outcome, result, envelope, events, ran, tracker, recent_actions,
          recorded, detected, issued, stamps, started_at, now, files,
          min_confidence, sources_data, fact, facts, dataset, datasets,
          passed, manifest>>

\* The orchestrator, its state manager and the locals of run().
run_vars == <<current_step, tasks, phase1_context, phase2_context,
              current_phase, pc, plan, idx, completed_task_ids, outcome,
              result, envelope, events, ran>>

\* The objects around the orchestrator; run() touches none of them.
loop_vars == <<recent_actions, recorded, detected>>
time_vars == <<stamps, started_at, now, files>>
truth_vars == <<min_confidence, sources_data, fact>>
data_vars == <<facts, dataset, datasets, passed, manifest>>
\* The objects no step of run() reaches, those with the executor's window
\* and the clock, and those with the tracker.
beyond == <<issued, files, truth_vars, data_vars>>
surroundings == <<loop_vars, now, beyond>>
components == <<tracker, surroundings>>

config == <<analysis_mode, max_steps, progress_callback, entry>>
\* What run() leaves as it found it.
fixed == <<config, restored>>

NoEnvelope == [returned |-> FALSE]

\* The Phase-1 context a Business Overview leaves behind: the slot of
\* company-intelligence filled.
LoadedPhase1Context == Put(InitPhase1Context, "company_intelligence", Dict)

\* The registry of one Phase-1 task as a session left it, the task having
\* this status. A task fails when its result carries an error: the data of
\* a result is the skill's dict or the fallback's, neither of them empty.
SessionTasks(status) ==
    <<[Task(AllIds[1], "phase1", "company-intelligence", {}) EXCEPT
          !.status = status,
          !.result = IF status = "completed"
                     THEN [success |-> TRUE, data |-> Dict, error |-> None]
                     ELSE @,
          !.error = IF status = "failed" THEN "Task reported error" ELSE @]>>

\* The tasks of a Business Overview of one task, after it completed.
OverviewTasks == SessionTasks("completed")

\* The state files given to load_state. save_state wrote four of them, after
\* a Business Overview of one task that completed, that failed validation,
\* that an exception left in_progress, and that the step limit left
\* pending; the fifth is a JSON object without keys.
SavedStates ==
    {save_state(SessionTasks("completed"),
                <<[started_at |-> At(0), completed_at |-> At(0)]>>,
                LoadedPhase1Context, InitPhase2Context, "phase1_complete", At(0)),
     save_state(SessionTasks("failed"),
                <<[started_at |-> At(0), completed_at |-> At(0)]>>,
                InitPhase1Context, InitPhase2Context, "phase1_complete", At(0)),
     save_state(SessionTasks("in_progress"),
                <<[started_at |-> At(0), completed_at |-> Unset]>>,
                InitPhase1Context, InitPhase2Context, "phase1", At(0)),
     save_state(SessionTasks("pending"), <<NoStamps>>,
                InitPhase1Context, InitPhase2Context, "phase1_complete", At(0)),
     EmptyMap}

\* full_results.get('phase1', {}) of a session's analysis.json: the context
\* of a Business Overview that stored a result, of one that stored none,
\* and the default of a file without the key.
SessionPhase1 == {LoadedPhase1Context, InitPhase1Context, EmptyMap}

\* No object around the orchestrator has been built.
ExecutorIdle ==
    /\ recent_actions = <<>>
    /\ recorded = <<>>
    /\ detected = FALSE
    /\ issued = <<>>

StateTimesIdle ==
    /\ stamps = <<>>
    /\ started_at = <<>>
    /\ now = 0
    /\ files = <<>>

TruthEngineIdle ==
    /\ min_confidence = None
    /\ sources_data = <<>>
    /\ fact = [returned |-> FALSE]

DataIdle ==
    /\ facts = <<>>
    /\ dataset = [returned |-> FALSE]
    /\ datasets = <<>>
    /\ passed = <<>>
    /\ manifest = <<>>

ComponentsIdle ==
    /\ tracker = NoTracker
    /\ ExecutorIdle
    /\ StateTimesIdle
    /\ TruthEngineIdle
    /\ DataIdle
    /\ min_confidence = None
    /\ sources_data = <<>>
    /\ fact = [returned |-> FALSE]

\* app.py builds the ProgressTracker before the orchestrator and installs
\* its emit as the callback: run_analysis with the estimate of the
\* configuration it built, execute_frameworks_on_session with five tasks
\* for each of the frameworks selected, at least one.
AppTrackers(caller, mode) ==
    IF caller = "run"
    THEN {ProgressTracker(estimate_total_tasks(mode, frameworks)) :
             frameworks \in 0..MaxFrameworks}
    ELSE {ProgressTracker(frameworks * SessionTasksPerFramework) :
             frameworks \in 1..MaxFrameworks}

\* The configurations app.py builds have max_steps 50, a limit no plan of
\* the model reaches.
AppConfig ==
    /\ progress_callback
    /\ max_steps = MaxStepsBound
    /\ tracker \in AppTrackers(entry, analysis_mode)

\* app.py, execute_frameworks_on_session: analysis_mode 'frameworks'.
AppFrameworksConfig ==
    /\ AppConfig
    /\ analysis_mode = "frameworks"

\* The orchestrator after __init__, for each configuration and each caller:
\* main.py installs no callback, app.py its tracker's emit; a callback that is
\* a plain function has no tracker behind it.
Init ==
    /\ analysis_mode \in AnalysisModes
    /\ max_steps \in 0..MaxStepsBound
    /\ progress_callback \in BOOLEAN
    /\ entry \in {"run", "run_phase2"}
    /\ tracker \in {NoTracker} \cup AppTrackers(entry, analysis_mode)
    /\ tracker # NoTracker => AppConfig
    /\ entry = "run_phase2" => AppFrameworksConfig
    /\ restored = 0
    /\ current_step = 0
    /\ tasks = <<>>
    /\ phase1_context = InitPhase1Context
    /\ phase2_context = InitPhase2Context
    /\ current_phase = "phase1"
    /\ pc = "run"
    /\ plan = <<>>
    /\ idx = 1
    /\ completed_task_ids = {}
    /\ outcome = None
    /\ result = NoResult
    /\ envelope = NoEnvelope
    /\ events = <<>>
    /\ ran = <<>>
    /\ ExecutorIdle
    /\ StateTimesIdle
    /\ TruthEngineIdle
    /\ DataIdle

(***************************************************************************)
(* Progress events and the run's exception handler.                        *)
(***************************************************************************)
Event(task_id, status, level) == [task_id |-> task_id, status |-> status, level |-> level]

\* BusinessContextOrchestrator._emit_progress: the callback is called when
\* one is installed.
emit_progress(callback, evs, task_id, status, level) ==
    IF callback THEN Append(evs, Event(task_id, status, level)) ELSE evs

\* What the call does when the callback is a tracker's emit: the event is
\* built with the clock's instant and recorded by the tracker before its
\* own UI callback is called.
callback_emit(callback, t, task_id, status, timestamp) ==
    IF callback /\ t # NoTracker THEN emit(t, task_id, status, timestamp) ELSE t

\* datetime.now(): an instant not before the one read last.
Later(t) == t..MaxClock

\* The instants an event may be built at: a tracker reads the clock, a
\* plain callback and a missing one do not.
EventTimes(t) == IF tracker = NoTracker THEN {t} ELSE Later(t)

\* run(): except Exception -> {'error': str(e), 'summary': get_summary()}
ErrorEnvelope(ts, phase) == [error |-> "exception", summary |-> get_summary(ts, phase)]

\* An exception leaves the phase: run() catches it and returns the error
\* envelope; the caller of run_phase2() receives the exception.
ExceptionLeaves(ts) ==
    IF entry = "run"
    THEN /\ envelope' = ErrorEnvelope(ts, current_phase)
         /\ pc' = "done"
    ELSE /\ pc' = "raised"
         /\ UNCHANGED envelope

PhaseName(n) == IF n = 1 THEN "phase1" ELSE "phase2"
PcPlan(n) == IF n = 1 THEN "p1_plan" ELSE "p2_plan"
PcLoop(n) == IF n = 1 THEN "p1_loop" ELSE "p2_loop"
PcExec(n) == IF n = 1 THEN "p1_exec" ELSE "p2_exec"
PcValidate(n) == IF n = 1 THEN "p1_validate" ELSE "p2_validate"

(***************************************************************************)
(* run(): dispatch on the analysis mode.                                   *)
(***************************************************************************)
RunBusinessOverview ==
    /\ pc = "run"
    /\ entry = "run"
    /\ \E t \in Later(now) :
         /\ started_at' = At(t)
         /\ now' = t
    /\ analysis_mode = "business_overview"
    /\ pc' = "p1_plan"
    /\ UNCHANGED <<tracker, loop_vars, beyond, fixed, stamps, current_step, tasks,
                   phase1_context, phase2_context, current_phase, plan, idx,
                   completed_task_ids, outcome, result, envelope, events, ran>>

RunFull ==
    /\ pc = "run"
    /\ entry = "run"
    /\ \E t \in Later(now) :
         /\ started_at' = At(t)
         /\ now' = t
    /\ analysis_mode = "full"
    /\ pc' = "p1_plan"
    /\ UNCHANGED <<tracker, loop_vars, beyond, fixed, stamps, current_step, tasks,
                   phase1_context, phase2_context, current_phase, plan, idx,
                   completed_task_ids, outcome, result, envelope, events, ran>>

\* orchestrator.load_state(filepath) before run(), whatever the mode of the
\* run that follows: a saved session is restored.
LoadState ==
    /\ pc = "run"
    /\ entry = "run"
    /\ \E file \in SavedStates :
         LET loaded == load_state(file) IN
         /\ tasks' = loaded.tasks
         /\ stamps' = loaded.stamps
         /\ phase1_context' = loaded.phase1_context
         /\ phase2_context' = loaded.phase2_context
         /\ current_phase' = loaded.current_phase
         /\ restored' = Len(loaded.tasks)
    /\ UNCHANGED <<components, config, started_at, current_step, pc, plan, idx,
                   completed_task_ids, outcome, result, envelope, events, ran>>

\* app.py, execute_frameworks_on_session: state.phase1_context is assigned
\* and run_phase2() is called, not run().
FrameworksOnSession ==
    /\ pc = "run"
    /\ entry = "run_phase2"
    /\ phase1_context' \in SessionPhase1
    /\ pc' = "p2_plan"
    /\ UNCHANGED <<components, fixed, stamps, started_at, current_step, tasks,
                   phase2_context, current_phase, plan, idx, completed_task_ids,
                   outcome, result, envelope, events, ran>>

\* `not self.state.phase1_context`: a dict is falsy only when it has no key.
ContextIsEmpty(ctx) == DOMAIN ctx = {}

\* run_frameworks_only, up to the call of run_phase2()
RunFrameworksOnly ==
    /\ pc = "run"
    /\ entry = "run"
    /\ \E t \in Later(now) :
         /\ started_at' = At(t)
         /\ now' = t
    /\ analysis_mode = "frameworks"
    /\ IF ContextIsEmpty(phase1_context)
       THEN /\ envelope' = [error |-> "Business Overview required before running frameworks"]
            /\ pc' = "done"
            /\ UNCHANGED current_phase
       ELSE /\ current_phase' = "phase2"
            /\ pc' = "p2_plan"
            /\ UNCHANGED envelope
    /\ UNCHANGED <<tracker, loop_vars, beyond, fixed, stamps, current_step, tasks,
                   phase1_context, phase2_context, plan, idx, completed_task_ids,
                   outcome, result, events, ran>>

(***************************************************************************)
(* What run() does once run_phase1 / run_phase2 has returned.              *)
(***************************************************************************)
\* run_business_overview_only, after run_phase1()
BusinessOverviewReturn ==
    /\ analysis_mode = "business_overview"
    /\ IF ContextIsEmpty(phase1_context)
       THEN /\ envelope' = [error |-> "Business Overview failed"]
            /\ UNCHANGED current_phase
       ELSE /\ current_phase' = "phase1_complete"
            /\ envelope' = [phase1 |-> phase1_context,
                            phase2 |-> EmptyMap,
                            summary |-> get_summary(tasks, "phase1_complete"),
                            analysis_type |-> "business_overview"]
    /\ pc' = "done"
    /\ UNCHANGED <<components, fixed, stamps, started_at, current_step, tasks, phase1_context, phase2_context,
                   plan, idx, completed_task_ids, outcome, result, events, ran>>

\* run_full_analysis, after run_phase1()
FullAfterPhase1 ==
    /\ analysis_mode = "full"
    /\ IF ContextIsEmpty(phase1_context)
       THEN /\ envelope' = [error |-> "Phase 1 failed", phase1_results |-> phase1_context]
            /\ pc' = "done"
            /\ UNCHANGED current_phase
       ELSE /\ current_phase' = "phase2"
            /\ pc' = "p2_plan"
            /\ UNCHANGED envelope
    /\ UNCHANGED <<components, fixed, stamps, started_at, current_step, tasks, phase1_context, phase2_context,
                   plan, idx, completed_task_ids, outcome, result, events, ran>>

\* run_full_analysis, after run_phase2()
FullReturn ==
    /\ entry = "run"
    /\ analysis_mode = "full"
    /\ envelope' = [phase1 |-> phase1_context,
                    phase2 |-> phase2_context,
                    summary |-> get_summary(tasks, current_phase),
                    analysis_type |-> "full"]
    /\ pc' = "done"
    /\ UNCHANGED <<components, fixed, stamps, started_at, current_step, tasks, phase1_context, phase2_context,
                   current_phase, plan, idx, completed_task_ids, outcome, result,
                   events, ran>>

\* run_frameworks_only, after run_phase2()
FrameworksReturn ==
    /\ entry = "run"
    /\ analysis_mode = "frameworks"
    /\ envelope' = [phase1 |-> phase1_context,
                    phase2 |-> phase2_context,
                    summary |-> get_summary(tasks, current_phase),
                    analysis_type |-> "frameworks"]
    /\ pc' = "done"
    /\ UNCHANGED <<components, fixed, stamps, started_at, current_step, tasks, phase1_context, phase2_context,
                   current_phase, plan, idx, completed_task_ids, outcome, result,
                   events, ran>>

\* run_phase2() returns to the application that called it.
Phase2Returned ==
    /\ entry = "run_phase2"
    /\ pc' = "returned"
    /\ UNCHANGED <<components, fixed, stamps, started_at, current_step, tasks,
                   phase1_context, phase2_context, current_phase, plan, idx,
                   completed_task_ids, outcome, result, envelope, events, ran>>

\* The statements that follow the return of run_phase1 / run_phase2.
AfterPhase(n) ==
    IF n = 1
    THEN BusinessOverviewReturn \/ FullAfterPhase1
    ELSE FullReturn \/ FrameworksReturn \/ Phase2Returned

(***************************************************************************)
(* run_phase1 / run_phase2.                                                *)
(***************************************************************************)
\* Plan the phase and add every planned task to the state.
PlanPhase(n) ==
    /\ pc = PcPlan(n)
    /\ \E p \in Plans(tasks, PhaseName(n), MaxTasks - (Len(tasks) - restored)) :
         /\ plan' = p
         /\ tasks' = add_tasks(tasks, p)
         /\ stamps' = stamps \o [i \in 1..Len(p) |-> NoStamps]
    /\ idx' = 1
    /\ completed_task_ids' = {}
    /\ pc' = PcLoop(n)
    /\ UNCHANGED <<components, fixed, started_at, current_step, phase1_context, phase2_context,
                   current_phase, outcome, result, envelope, events, ran>>

\* The planner builds its prompt before its try. A configuration read from
\* a file may hold `scope:` without a value (scope.get raises in either
\* phase) or, for Phase 2, phase2_frameworks that is null or holds a
\* non-string (', '.join raises): the exception leaves the phase before any
\* task is added. The configurations app.py builds hold a dict and a list
\* of strings.
PlanRaises(n) ==
    /\ pc = PcPlan(n)
    /\ tracker = NoTracker
    /\ entry = "run"
    /\ ExceptionLeaves(tasks)
    /\ UNCHANGED <<components, fixed, stamps, started_at, current_step, tasks,
                   phase1_context, phase2_context, current_phase, plan, idx,
                   completed_task_ids, outcome, result, events, ran>>

\* The for loop is exhausted: the phase returns.
LoopEnd(n) ==
    /\ pc = PcLoop(n)
    /\ idx > Len(plan)
    /\ AfterPhase(n)

\* The comparison lets one more task through.
StepLimitReached_OffByOne(step, limit) == step > limit

\* self.current_step >= self.max_steps
StepLimitReached(step, limit) == step >= limit

\* if self.current_step >= self.max_steps: break, and the phase returns.
StepLimit(n) ==
    /\ pc = PcLoop(n)
    /\ idx <= Len(plan)
    /\ StepLimitReached(current_step, max_steps)
    /\ AfterPhase(n)

\* The loop body is entered for plan[idx] and its dependencies are met.
TaskIsDue(n) ==
    /\ pc = PcLoop(n)
    /\ idx <= Len(plan)
    /\ ~StepLimitReached(current_step, max_steps)
    /\ check_dependencies_met(plan[idx], completed_task_ids)

\* if not check_dependencies_met(task, completed_task_ids): continue
SkipTask(n) ==
    /\ pc = PcLoop(n)
    /\ idx <= Len(plan)
    /\ ~StepLimitReached(current_step, max_steps)
    /\ ~check_dependencies_met(plan[idx], completed_task_ids)
    /\ idx' = idx + 1
    /\ UNCHANGED <<components, fixed, stamps, started_at, current_step, tasks, phase1_context, phase2_context,
                   current_phase, pc, plan, completed_task_ids, outcome, result,
                   envelope, events, ran>>

\* Emit task start, mark the task in_progress, reset the executor's loop
\* detection, emit skill loading: the clock is read for the first event and
\* again for started_at.
StartTask(n) ==
    /\ TaskIsDue(n)
    /\ plan[idx].skill # None
    /\ \E first \in EventTimes(now) : \E second \in Later(first) :
         LET task == plan[idx] IN
         /\ tasks' = update_task_status(tasks, task.id, "in_progress", NoResult, None)
         /\ stamps' = stamp_task_status(stamps, tasks, task.id, "in_progress", second)
         /\ events' = emit_progress(progress_callback, emit_progress(progress_callback, events, task.id, "in_progress", "task"),
                                    task.id, "in_progress", "skill")
         /\ tracker' = callback_emit(progress_callback,
                                     callback_emit(progress_callback, tracker, task.id,
                                                   "in_progress", first),
                                     task.id, "in_progress", second)
         /\ now' = second
    /\ recent_actions' = reset_loop_detection
    /\ recorded' = <<>>
    /\ pc' = PcExec(n)
    /\ UNCHANGED <<detected, beyond, fixed, started_at, current_step, phase1_context,
                   phase2_context, current_phase, plan, idx, completed_task_ids,
                   outcome, result, envelope, ran>>

\* The progress callback raises on the task-start event: run() catches it.
StartEventRaises(n) ==
    /\ TaskIsDue(n)
    /\ progress_callback
    /\ events' = emit_progress(progress_callback, events, plan[idx].id, "in_progress", "task")
    /\ \E first \in EventTimes(now) :
         /\ tracker' = callback_emit(progress_callback, tracker, plan[idx].id,
                                     "in_progress", first)
         /\ now' = first
    /\ ExceptionLeaves(tasks)
    /\ UNCHANGED <<loop_vars, beyond, fixed, stamps, started_at, current_step, tasks,
                   phase1_context, phase2_context, current_phase, plan, idx,
                   completed_task_ids, outcome, result, ran>>

\* The progress callback raises on the skill-loading event, after the task
\* was marked in_progress and the loop detection reset.
SkillEventRaises(n) ==
    /\ TaskIsDue(n)
    /\ progress_callback
    /\ plan[idx].skill # None
    /\ \E first \in EventTimes(now) : \E second \in Later(first) :
         LET task == plan[idx] IN
         /\ tasks' = update_task_status(tasks, task.id, "in_progress", NoResult, None)
         /\ stamps' = stamp_task_status(stamps, tasks, task.id, "in_progress", second)
         /\ events' = emit_progress(progress_callback, emit_progress(progress_callback, events, task.id, "in_progress", "task"),
                                    task.id, "in_progress", "skill")
         /\ tracker' = callback_emit(progress_callback,
                                     callback_emit(progress_callback, tracker, task.id,
                                                   "in_progress", first),
                                     task.id, "in_progress", second)
         /\ now' = second
    /\ recent_actions' = reset_loop_detection
    /\ recorded' = <<>>
    /\ ExceptionLeaves(tasks')
    /\ UNCHANGED <<detected, beyond, fixed, started_at, current_step, phase1_context,
                   phase2_context, current_phase, plan, idx, completed_task_ids,
                   outcome, result, ran>>

\* task.skill.replace('-', ' ') on a skill that is None raises
\* AttributeError, after the task was marked in_progress and the loop
\* detection reset: run() catches it.
SkillNameRaises(n) ==
    /\ TaskIsDue(n)
    /\ plan[idx].skill = None
    /\ \E first \in EventTimes(now) : \E second \in Later(first) :
         LET task == plan[idx] IN
         /\ tasks' = update_task_status(tasks, task.id, "in_progress", NoResult, None)
         /\ stamps' = stamp_task_status(stamps, tasks, task.id, "in_progress", second)
         /\ events' = emit_progress(progress_callback, events, task.id, "in_progress", "task")
         /\ tracker' = callback_emit(progress_callback, tracker, task.id,
                                     "in_progress", first)
         /\ now' = second
    /\ recent_actions' = reset_loop_detection
    /\ recorded' = <<>>
    /\ ExceptionLeaves(tasks')
    /\ UNCHANGED <<detected, beyond, fixed, started_at, current_step, phase1_context,
                   phase2_context, current_phase, plan, idx, completed_task_ids,
                   outcome, result, ran>>

\* result = executor.execute_task(...); current_step += 1
ExecuteTask(n) ==
    /\ pc = PcExec(n)
    /\ \E o \in SkillOutcomes : \E fallback \in FallbackCalls(o) :
         /\ outcome' = o
         /\ result' = execute_task(o, fallback)
    /\ ran' = Append(ran, [phase |-> PhaseName(n), index |-> idx, id |-> plan[idx].id])
    /\ current_step' = current_step + 1
    /\ pc' = PcValidate(n)
    /\ UNCHANGED <<components, fixed, stamps, started_at, tasks, phase1_context, phase2_context, current_phase,
                   plan, idx, completed_task_ids, envelope, events>>

\* The skill's own dict holds a value json.dumps cannot encode (the parsed
\* JSON of the fallback never does) and the validator builds the prompt of
\* the language model with it: the TypeError leaves validate_task_completion,
\* the task stays in_progress.
ValidatorRaises(n) ==
    /\ pc = PcValidate(n)
    /\ outcome \in {"data", "unsuccessful"}
    /\ validate_task_completion(plan[idx].skill, result, "not_json") = Raised
    /\ ExceptionLeaves(tasks)
    /\ outcome' = None
    /\ result' = NoResult
    /\ UNCHANGED <<components, fixed, stamps, started_at, current_step, tasks,
                   phase1_context, phase2_context, current_phase, plan, idx,
                   completed_task_ids, events, ran>>

\* The payload is stored before the result is validated.
FinishTask_StoresFirst(n) ==
    /\ pc = PcValidate(n)
    /\ \E answer \in LlmCalls(plan[idx].skill), raises \in {FALSE, progress_callback} :
         LET task == plan[idx]
             v == validate_task_completion(task.skill, result, answer)
             is_valid == v[1]
             feedback == v[2]
             status == IF is_valid THEN "completed" ELSE "failed"
         IN
         /\ IF is_valid
            THEN /\ phase1_context' = IF n = 1
                                      THEN store_phase1_result(phase1_context, task.skill, result)
                                      ELSE phase1_context
                 /\ phase2_context' = IF n = 2
                                      THEN store_phase2_result(phase2_context, task.skill, result)
                                      ELSE phase2_context
                 /\ tasks' = update_task_status(tasks, task.id, "completed", result, None)
                 /\ completed_task_ids' = completed_task_ids \cup {task.id}
            ELSE /\ phase1_context' = IF n = 1
                                      THEN store_phase1_result(phase1_context, task.skill, result)
                                      ELSE phase1_context
                 /\ phase2_context' = IF n = 2
                                      THEN store_phase2_result(phase2_context, task.skill, result)
                                      ELSE phase2_context
                 /\ tasks' = update_task_status(tasks, task.id, "failed", NoResult, feedback)
                 /\ UNCHANGED completed_task_ids
         /\ \E first \in Later(now) : \E second \in EventTimes(first) :
              /\ stamps' = stamp_task_status(stamps, tasks, task.id, status, first)
              /\ tracker' = callback_emit(progress_callback, tracker, task.id,
                                          status, second)
              /\ now' = second
         /\ events' = emit_progress(progress_callback, events, task.id, status, "task")
         /\ IF raises
            THEN /\ ExceptionLeaves(tasks')
                 /\ UNCHANGED idx
            ELSE /\ idx' = idx + 1
                 /\ pc' = PcLoop(n)
                 /\ UNCHANGED envelope
    /\ outcome' = None
    /\ result' = NoResult
    /\ UNCHANGED <<loop_vars, beyond, fixed, started_at, current_step, current_phase,
                   plan, ran>>

\* Validate; on accept store the payload and mark the task completed, on
\* reject mark it failed; emit the terminal event, on which the callback,
\* when one is installed, may raise. The clock is read for completed_at and
\* again for the event.
FinishTask(n) ==
    /\ pc = PcValidate(n)
    /\ \E answer \in LlmCalls(plan[idx].skill), raises \in {FALSE, progress_callback} :
         LET task == plan[idx]
             v == validate_task_completion(task.skill, result, answer)
             is_valid == v[1]
             feedback == v[2]
             status == IF is_valid THEN "completed" ELSE "failed"
         IN
         /\ IF is_valid
            THEN /\ phase1_context' = IF n = 1
                                      THEN store_phase1_result(phase1_context, task.skill, result)
                                      ELSE phase1_context
                 /\ phase2_context' = IF n = 2
                                      THEN store_phase2_result(phase2_context, task.skill, result)
                                      ELSE phase2_context
                 /\ tasks' = update_task_status(tasks, task.id, "completed", result, None)
                 /\ completed_task_ids' = completed_task_ids \cup {task.id}
            ELSE /\ tasks' = update_task_status(tasks, task.id, "failed", NoResult, feedback)
                 /\ UNCHANGED <<phase1_context, phase2_context, completed_task_ids>>
         /\ \E first \in Later(now) : \E second \in EventTimes(first) :
              /\ stamps' = stamp_task_status(stamps, tasks, task.id, status, first)
              /\ tracker' = callback_emit(progress_callback, tracker, task.id,
                                          status, second)
              /\ now' = second
         /\ events' = emit_progress(progress_callback, events, task.id, status, "task")
         /\ IF raises
            THEN /\ ExceptionLeaves(tasks')
                 /\ UNCHANGED idx
            ELSE /\ idx' = idx + 1
                 /\ pc' = PcLoop(n)
                 /\ UNCHANGED envelope
    /\ outcome' = None
    /\ result' = NoResult
    /\ UNCHANGED <<loop_vars, beyond, fixed, started_at, current_step, current_phase,
                   plan, ran>>

Phase1Plan == PlanPhase(1)
Phase1PlanRaises == PlanRaises(1)
Phase1LoopEnd == LoopEnd(1)
Phase1StepLimit == StepLimit(1)
Phase1SkipTask == SkipTask(1)
Phase1StartTask == StartTask(1)
Phase1StartEventRaises == StartEventRaises(1)
Phase1SkillEventRaises == SkillEventRaises(1)
Phase1SkillNameRaises == SkillNameRaises(1)
Phase1ExecuteTask == ExecuteTask(1)
Phase1ValidatorRaises == ValidatorRaises(1)
Phase1FinishTask == FinishTask(1)
Phase2Plan == PlanPhase(2)
Phase2PlanRaises == PlanRaises(2)
Phase2LoopEnd == LoopEnd(2)
Phase2StepLimit == StepLimit(2)
Phase2SkipTask == SkipTask(2)
Phase2StartTask == StartTask(2)
Phase2StartEventRaises == StartEventRaises(2)
Phase2SkillEventRaises == SkillEventRaises(2)
Phase2SkillNameRaises == SkillNameRaises(2)
Phase2ExecuteTask == ExecuteTask(2)
Phase2ValidatorRaises == ValidatorRaises(2)
Phase2FinishTask == FinishTask(2)

Next ==
    \/ LoadState
    \/ FrameworksOnSession
    \/ RunBusinessOverview
    \/ RunFull
    \/ RunFrameworksOnly
    \/ Phase1Plan
    \/ Phase1PlanRaises
    \/ Phase1LoopEnd
    \/ Phase1StepLimit
    \/ Phase1SkipTask
    \/ Phase1StartTask
    \/ Phase1StartEventRaises
    \/ Phase1SkillEventRaises
    \/ Phase1SkillNameRaises
    \/ Phase1ExecuteTask
    \/ Phase1ValidatorRaises
    \/ Phase1FinishTask
    \/ Phase2Plan
    \/ Phase2PlanRaises
    \/ Phase2LoopEnd
    \/ Phase2StepLimit
    \/ Phase2SkipTask
    \/ Phase2StartTask
    \/ Phase2StartEventRaises
    \/ Phase2SkillEventRaises
    \/ Phase2SkillNameRaises
    \/ Phase2ExecuteTask
    \/ Phase2ValidatorRaises
    \/ Phase2FinishTask

Spec == Init /\ [][Next]_vars

(***************************************************************************)
(* main.py: the user interrupts the program while run() is executing.      *)
(***************************************************************************)
\* KeyboardInterrupt is raised inside run(); being no Exception it passes
\* every handler of the orchestrator, the executor and the validator, and
\* main's `except KeyboardInterrupt` prints two lines and returns 130. It
\* is raised between two statements, wherever run() is: what the statements
\* before it assigned stays assigned. main.py installs no callback.
\*
\* Between two steps of run().
InterruptBetween ==
    /\ pc \notin {"run", "done", "raised", "returned", "interrupted"}
    /\ pc' = "interrupted"
    /\ UNCHANGED <<components, fixed, stamps, started_at, current_step, tasks, phase1_context,
                   phase2_context, current_phase, plan, idx, completed_task_ids,
                   outcome, result, envelope, events, ran>>

\* In run(), before state.started_at is assigned.
InterruptInRun ==
    /\ pc = "run"
    /\ entry = "run"
    /\ pc' = "interrupted"
    /\ UNCHANGED <<components, fixed, stamps, started_at, current_step, tasks, phase1_context,
                   phase2_context, current_phase, plan, idx, completed_task_ids,
                   outcome, result, envelope, events, ran>>

\* In run(), after state.started_at was assigned and before the method of
\* the analysis mode assigned anything.
InterruptInDispatch ==
    /\ pc = "run"
    /\ entry = "run"
    /\ \E t \in Later(now) :
         /\ started_at' = At(t)
         /\ now' = t
    /\ pc' = "interrupted"
    /\ UNCHANGED <<tracker, loop_vars, beyond, fixed, stamps, current_step, tasks,
                   phase1_context, phase2_context, current_phase, plan, idx,
                   completed_task_ids, outcome, result, envelope, events, ran>>

\* In the loop of add_task calls: the first k tasks of the plan are in the
\* registry.
InterruptInPlan(n) ==
    /\ pc = PcPlan(n)
    /\ \E p \in Plans(tasks, PhaseName(n), MaxTasks - (Len(tasks) - restored)) :
         \E k \in 1..Len(p) :
             /\ plan' = p
             /\ tasks' = add_tasks(tasks, SubSeq(p, 1, k))
             /\ stamps' = stamps \o [i \in 1..k |-> NoStamps]
    /\ pc' = "interrupted"
    /\ UNCHANGED <<components, fixed, started_at, current_step, phase1_context,
                   phase2_context, current_phase, idx, completed_task_ids, outcome,
                   result, envelope, events, ran>>

\* In update_task_status(task.id, "in_progress"), after the status was
\* assigned: before started_at is, or after it.
InterruptInStart(n) ==
    /\ TaskIsDue(n)
    /\ tasks' = update_task_status(tasks, plan[idx].id, "in_progress", NoResult, None)
    /\ \/ UNCHANGED <<stamps, now>>
       \/ \E t \in Later(now) :
            /\ stamps' = stamp_task_status(stamps, tasks, plan[idx].id, "in_progress", t)
            /\ now' = t
    /\ pc' = "interrupted"
    /\ UNCHANGED <<tracker, loop_vars, beyond, fixed, started_at, current_step,
                   phase1_context, phase2_context, current_phase, plan, idx,
                   completed_task_ids, outcome, result, envelope, events, ran>>

\* In executor.execute_task, or before current_step += 1.
InterruptInExecute(n) ==
    /\ pc = PcExec(n)
    /\ ran' = Append(ran, [phase |-> PhaseName(n), index |-> idx, id |-> plan[idx].id])
    /\ pc' = "interrupted"
    /\ UNCHANGED <<components, fixed, stamps, started_at, current_step, tasks,
                   phase1_context, phase2_context, current_phase, plan, idx,
                   completed_task_ids, outcome, result, envelope, events>>

\* After the validator returned. An accepted result: after it was stored,
\* in update_task_status after the status, after the result, after
\* completed_at, or after the id was appended to completed_task_ids. A
\* rejected one: in update_task_status after the status, after the error,
\* or after completed_at.
InterruptInFinish(n) ==
    /\ pc = PcValidate(n)
    /\ \E answer \in LlmCalls(plan[idx].skill),
          reached \in {"stored", "status", "payload", "stamped", "listed"} :
         LET task == plan[idx]
             v == validate_task_completion(task.skill, result, answer)
             is_valid == v[1]
             feedback == v[2]
             status == IF is_valid THEN "completed" ELSE "failed"
         IN
         /\ ~is_valid => reached \notin {"stored", "listed"}
         /\ phase1_context' = IF is_valid /\ n = 1
                              THEN store_phase1_result(phase1_context, task.skill, result)
                              ELSE phase1_context
         /\ phase2_context' = IF is_valid /\ n = 2
                              THEN store_phase2_result(phase2_context, task.skill, result)
                              ELSE phase2_context
         /\ tasks' = CASE reached = "stored" -> tasks
                       [] reached = "status" ->
                             update_task_status(tasks, task.id, status, NoResult, None)
                       [] OTHER ->
                             update_task_status(tasks, task.id, status,
                                                IF is_valid THEN result ELSE NoResult,
                                                IF is_valid THEN None ELSE feedback)
         /\ IF reached \in {"stamped", "listed"}
            THEN \E t \in Later(now) :
                    /\ stamps' = stamp_task_status(stamps, tasks, task.id, status, t)
                    /\ now' = t
            ELSE UNCHANGED <<stamps, now>>
         /\ completed_task_ids' = IF reached = "listed"
                                  THEN completed_task_ids \cup {task.id}
                                  ELSE completed_task_ids
    /\ pc' = "interrupted"
    /\ UNCHANGED <<tracker, loop_vars, beyond, fixed, started_at, current_step,
                   current_phase, plan, idx, outcome, result, envelope, events, ran>>

\* In run_business_overview_only, after state.current_phase was assigned.
InterruptInReturn ==
    /\ pc = PcLoop(1)
    /\ idx > Len(plan) \/ StepLimitReached(current_step, max_steps)
    /\ analysis_mode = "business_overview"
    /\ ~ContextIsEmpty(phase1_context)
    /\ current_phase' = "phase1_complete"
    /\ pc' = "interrupted"
    /\ UNCHANGED <<components, fixed, stamps, started_at, current_step, tasks,
                   phase1_context, phase2_context, plan, idx, completed_task_ids,
                   outcome, result, envelope, events, ran>>

Interrupt ==
    \/ InterruptInRun
    \/ InterruptInDispatch
    \/ InterruptBetween
    \/ InterruptInPlan(1)
    \/ InterruptInPlan(2)
    \/ InterruptInStart(1)
    \/ InterruptInStart(2)
    \/ InterruptInExecute(1)
    \/ InterruptInExecute(2)
    \/ InterruptInFinish(1)
    \/ InterruptInFinish(2)
    \/ InterruptInReturn

(***************************************************************************)
(* The runs in which every call of the progress callback returns: the      *)
(* steps of run() except those in which the planner, the callback or the   *)
(* validator raises. The loop is sequential code, so a step that is        *)
(* possible is eventually taken.                                           *)
(***************************************************************************)
CallbackReturns(n) ==
    \/ StartTask(n)
    \/ SkillNameRaises(n)
    \/ FinishTask(n) /\ pc' \notin {"done", "raised"}

ReturningNext ==
    \/ RunBusinessOverview
    \/ RunFull
    \/ RunFrameworksOnly
    \/ Phase1Plan
    \/ Phase1LoopEnd
    \/ Phase1StepLimit
    \/ Phase1SkipTask
    \/ Phase1ExecuteTask
    \/ CallbackReturns(1)
    \/ Phase2Plan
    \/ Phase2LoopEnd
    \/ Phase2StepLimit
    \/ Phase2SkipTask
    \/ Phase2ExecuteTask
    \/ CallbackReturns(2)

\* run() is called on the orchestrator as it was built.
ReturningInit == Init /\ entry = "run"

ReturningSpec == ReturningInit /\ [][ReturningNext]_vars /\ WF_vars(ReturningNext)

\* main.py builds the orchestrator without a progress callback and calls
\* run(): no step in which a callback raises exists.
CancelInit == Init /\ entry = "run" /\ ~progress_callback

CancelNext ==
    \/ ReturningNext
    \/ Phase1PlanRaises
    \/ Phase2PlanRaises
    \/ Phase1ValidatorRaises
    \/ Phase2ValidatorRaises
    \/ Interrupt

CancelSpec == CancelInit /\ [][CancelNext]_vars


\* An orchestrator that was built and whose run() is not called.
NotRunning ==
    /\ restored = 0
    /\ current_step = 0
    /\ tasks = <<>>
    /\ phase1_context = InitPhase1Context
    /\ phase2_context = InitPhase2Context
    /\ current_phase = "phase1"
    /\ pc = "idle"
    /\ plan = <<>>
    /\ idx = 1
    /\ completed_task_ids = {}
    /\ outcome = None
    /\ result = NoResult
    /\ envelope = NoEnvelope
    /\ events = <<>>
    /\ ran = <<>>

(***************************************************************************)
(* core/executor.py: loop detection.                                       *)
(***************************************************************************)
MaxCalls == 6        \* detect_loop calls between two resets
MaxIssued == 4       \* actions a skill performs while it runs one task

LoopWindow == 5      \* if len(self.recent_actions) > 5
LoopRepeats == 4     \* if len(self.recent_actions) >= 4

Signatures == {"skill:company-intelligence", "skill:swot-analyzer"}

\* seq[-n:]
LastN(seq, n) ==
    IF Len(seq) <= n THEN seq ELSE SubSeq(seq, Len(seq) - n + 1, Len(seq))

\* set(seq)
SetOf(seq) == {seq[i] : i \in 1..Len(seq)}

\* Three identical actions already count as a loop.
detect_loop_ThreeRepeats(actions, action_signature) ==
    LET appended == Append(actions, action_signature)
        kept == IF Len(appended) > LoopWindow
                THEN LastN(appended, LoopWindow) ELSE appended
    IN  <<kept, /\ Len(kept) >= LoopRepeats - 1
                /\ Cardinality(SetOf(LastN(kept, LoopRepeats - 1))) = 1>>

\* Executor.detect_loop: <<self.recent_actions afterwards, return value>>
detect_loop(actions, action_signature) ==
    LET appended == Append(actions, action_signature)
        kept == IF Len(appended) > LoopWindow
                THEN LastN(appended, LoopWindow) ELSE appended
    IN  <<kept, /\ Len(kept) >= LoopRepeats
                /\ Cardinality(SetOf(LastN(kept, LoopRepeats))) = 1>>

\* An executor right after Executor.__init__.
LoopInit ==
    /\ analysis_mode = "full"
    /\ max_steps = MaxStepsBound
    /\ progress_callback = FALSE
    /\ entry = "run"
    /\ NotRunning
    /\ ComponentsIdle

\* executor.detect_loop(action_signature)
DetectLoop ==
    /\ Len(recorded) < MaxCalls
    /\ \E action_signature \in Signatures :
         /\ recent_actions' = detect_loop(recent_actions, action_signature)[1]
         /\ detected' = detect_loop(recent_actions, action_signature)[2]
         /\ recorded' = Append(recorded, action_signature)
    /\ UNCHANGED <<fixed, run_vars, tracker, issued, time_vars, truth_vars,
                   data_vars>>

\* executor.reset_loop_detection()
ResetLoopDetection ==
    /\ recent_actions' = reset_loop_detection
    /\ recorded' = <<>>
    /\ UNCHANGED <<fixed, run_vars, tracker, detected, issued, time_vars,
                   truth_vars,
                   data_vars>>

LoopNext == DetectLoop \/ ResetLoopDetection

LoopSpec == LoopInit /\ [][LoopNext]_vars

(***************************************************************************)
(* core/executor.py: one task handed to the executor, the skill performing *)
(* its actions before it returns.                                          *)
(***************************************************************************)
ExecInit == LoopInit

\* self.executor.reset_loop_detection(), then execute_task(...) is entered.
ExecCall ==
    /\ pc = "idle"
    /\ pc' = "in_skill"
    /\ recent_actions' = reset_loop_detection
    /\ UNCHANGED <<fixed, current_step, tasks, phase1_context, phase2_context,
                   current_phase, plan, idx, completed_task_ids, outcome,
                   result, envelope, events, ran, tracker, recorded, detected,
                   issued, time_vars, truth_vars,
                   data_vars>>

\* The skill's execute() performs one more action; the executor is not
\* told about it.
SkillIssues ==
    /\ pc = "in_skill"
    /\ Len(issued) < MaxIssued
    /\ \E action_signature \in Signatures :
         issued' = Append(issued, action_signature)
    /\ UNCHANGED <<fixed, run_vars, tracker, loop_vars, time_vars, truth_vars,
                   data_vars>>

\* The skill ends and execute_task returns.
ExecReturn ==
    /\ pc = "in_skill"
    /\ pc' = "returned"
    /\ \E o \in SkillOutcomes, fallback \in FallbackOutcomes :
         /\ outcome' = o
         /\ result' = execute_task(o, fallback)
    /\ UNCHANGED <<fixed, current_step, tasks, phase1_context, phase2_context,
                   current_phase, plan, idx, completed_task_ids, envelope,
                   events, ran, tracker, loop_vars, issued, time_vars,
                   truth_vars,
                   data_vars>>

ExecNext == ExecCall \/ SkillIssues \/ ExecReturn

ExecSpec == ExecInit /\ [][ExecNext]_vars

(***************************************************************************)
(* core/state_manager.py: the timestamps of the tasks, save_state and      *)
(* load_state, for a state manager that is called directly.                *)
(***************************************************************************)
MaxRegistry == 1     \* tasks added to the state manager

StatusUpdates == {"in_progress", "completed", "failed"}

\* A state manager right after StateManager.__init__.
StateInit == LoopInit

\* state.add_task(Task(...))
AddTask ==
    /\ files = <<>>
    /\ Len(tasks) < MaxRegistry
    /\ tasks' = add_task(tasks, Task(AllIds[1], "phase1", "company-intelligence", {}))
    /\ stamps' = Append(stamps, NoStamps)
    /\ UNCHANGED <<fixed, current_step, phase1_context, phase2_context,
                   current_phase, pc, plan, idx, completed_task_ids, outcome,
                   result, envelope, events, ran, tracker, loop_vars, issued,
                   started_at, now, files, truth_vars,
                   data_vars>>

\* state.update_task_status(task_id, status, ...) with the arguments the
\* orchestrator passes for this status.
UpdateTaskStatus ==
    /\ files = <<>>
    /\ \E status \in StatusUpdates :
         /\ tasks' = update_task_status(tasks, AllIds[1], status,
                         IF status = "completed"
                         THEN [success |-> TRUE, data |-> Dict, error |-> None]
                         ELSE NoResult,
                         IF status = "failed" THEN "Task reported error" ELSE None)
         /\ stamps' = stamp_task_status(stamps, tasks, AllIds[1], status, now)
    /\ UNCHANGED <<fixed, current_step, phase1_context, phase2_context,
                   current_phase, pc, plan, idx, completed_task_ids, outcome,
                   result, envelope, events, ran, tracker, loop_vars, issued,
                   started_at, now, files, truth_vars,
                   data_vars>>

\* self.state.started_at = datetime.now()
StampStart ==
    /\ files = <<>>
    /\ started_at' = At(now)
    /\ UNCHANGED <<fixed, run_vars, tracker, loop_vars, issued, stamps, now,
                   files, truth_vars,
                   data_vars>>

\* Time passes.
Tick ==
    /\ files = <<>>
    /\ now < MaxClock
    /\ now' = now + 1
    /\ UNCHANGED <<fixed, run_vars, tracker, loop_vars, issued, stamps,
                   started_at, files, truth_vars,
                   data_vars>>

\* save_state, load_state into a fresh state manager (whose started_at is
\* None), save_state again. The dict a skill returned may hold a value json
\* cannot write (a datetime, a set): json.dump, called without default=,
\* then raises TypeError in the first save_state, after the file was opened,
\* and nothing is loaded or saved after it. What load_state read from a
\* file json can write again.
SaveLoadSave ==
    /\ files = <<>>
    /\ \/ LET first == save_state(tasks, stamps, phase1_context, phase2_context,
                                 current_phase, started_at)
              fresh == load_state(first)
          IN  files' = <<first,
                        save_state(fresh.tasks, fresh.stamps, fresh.phase1_context,
                                   fresh.phase2_context, fresh.current_phase,
                                   Unset)>>
       \/ /\ \/ \E i \in 1..Len(tasks) : tasks[i].result.data = Dict
             \/ \E k \in DOMAIN phase1_context : phase1_context[k] = Dict
             \/ \E k \in DOMAIN phase2_context : phase2_context[k] = Dict
          /\ files' = <<Truncated>>
    /\ UNCHANGED <<fixed, run_vars, tracker, loop_vars, issued, stamps,
                   started_at, now, truth_vars,
                   data_vars>>

StateNext == AddTask \/ UpdateTaskStatus \/ StampStart \/ Tick \/ SaveLoadSave

StateSpec == StateInit /\ [][StateNext]_vars

(***************************************************************************)
(* The tracker alone: any sequence of events emitted to it.                *)
(***************************************************************************)
MaxEvents == 4       \* events emitted to one tracker

\* tracker = ProgressTracker(estimate_total_tasks(config), ...)
TrackerInit ==
    /\ analysis_mode \in AnalysisModes
    /\ max_steps = MaxStepsBound
    /\ progress_callback = TRUE
    /\ entry = "run"
    /\ NotRunning
    /\ \E frameworks \in 0..MaxFrameworks :
         tracker = ProgressTracker(estimate_total_tasks(analysis_mode, frameworks))
    /\ ExecutorIdle
    /\ StateTimesIdle
    /\ TruthEngineIdle
    /\ DataIdle

\* tracker.emit(...), called for every progress event of the run.
TrackerEmit ==
    /\ Len(tracker.events) < MaxEvents
    /\ \E task_id \in TaskIds, status \in ProgressStatus, elapsed \in Elapsed :
         /\ now' = now + elapsed
         /\ tracker' = emit(tracker, task_id, status, now + elapsed)
    /\ UNCHANGED <<fixed, run_vars, loop_vars, issued, stamps, started_at, files,
                   truth_vars, data_vars>>

TrackerNext == TrackerEmit

TrackerSpec == TrackerInit /\ [][TrackerNext]_vars

(***************************************************************************)
(* Python floats: IEEE 754 binary64 with round to nearest, ties to even.   *)
(* A float is its sign, its 53-bit significand and its exponent; zero has  *)
(* the empty significand. A natural number too wide for one integer is a   *)
(* sequence of limbs, the least significant first.                         *)
(***************************************************************************)
Limb == 32768        \* 2^15
LimbBits == 15
Precision == 53      \* bits of a binary64 significand
MantLimbs == 4       \* limbs that hold a significand

Pow2(k) == 2 ^ k

\* The bits of a limb.
Bits(n) == CHOOSE b \in 0..LimbBits : n < 2 ^ b /\ (b = 0 \/ 2 ^ (b - 1) <= n)

\* Limb i of a, zero beyond its ends.
LimbAt(a, i) == IF i \in 1..Len(a) THEN a[i] ELSE 0

\* a without its leading zero limbs
Trim(a) ==
    SubSeq(a, 1, CHOOSE n \in 0..Len(a) :
                     /\ n = 0 \/ a[n] # 0
                     /\ \A i \in (n + 1)..Len(a) : a[i] = 0)

BigOf(n) == Trim(<<n % Limb, n \div Limb>>)

BitLen(a) == IF a = <<>> THEN 0 ELSE LimbBits * (Len(a) - 1) + Bits(a[Len(a)])

IsOdd(a) == a # <<>> /\ a[1] % 2 = 1

\* Whether the limbs below i carry into limb i when a and b are added: some
\* limb overflows and every limb between it and i is full.
Carries(a, b, i) ==
    \E j \in 1..(i - 1) :
        /\ LimbAt(a, j) + LimbAt(b, j) >= Limb
        /\ \A k \in (j + 1)..(i - 1) : LimbAt(a, k) + LimbAt(b, k) = Limb - 1

BigAdd(a, b) ==
    Trim([i \in 1..((IF Len(a) < Len(b) THEN Len(b) ELSE Len(a)) + 1) |->
            (LimbAt(a, i) + LimbAt(b, i) + (IF Carries(a, b, i) THEN 1 ELSE 0))
                % Limb])

\* Whether limb i lends to the limbs below it when b is taken from a.
Borrows(a, b, i) ==
    \E j \in 1..(i - 1) :
        /\ LimbAt(a, j) < LimbAt(b, j)
        /\ \A k \in (j + 1)..(i - 1) : LimbAt(a, k) = LimbAt(b, k)

\* a - b for a >= b
BigSub(a, b) ==
    Trim([i \in 1..Len(a) |->
            (LimbAt(a, i) - LimbAt(b, i) - (IF Borrows(a, b, i) THEN 1 ELSE 0)
                + Limb) % Limb])

BigLess(a, b) ==
    IF Len(a) # Len(b) THEN Len(a) < Len(b)
    ELSE \E i \in 1..Len(a) :
             /\ a[i] < b[i]
             /\ \A k \in (i + 1)..Len(a) : a[k] = b[k]

\* The products of the limbs of two significands that fall in column c,
\* their low halves and their high halves added up.
ColumnLow(a, b, c) ==
    ((LimbAt(a, 1) * LimbAt(b, c)) % Limb)
        + ((LimbAt(a, 2) * LimbAt(b, c - 1)) % Limb)
        + ((LimbAt(a, 3) * LimbAt(b, c - 2)) % Limb)
        + ((LimbAt(a, 4) * LimbAt(b, c - 3)) % Limb)

ColumnHigh(a, b, c) ==
    ((LimbAt(a, 1) * LimbAt(b, c)) \div Limb)
        + ((LimbAt(a, 2) * LimbAt(b, c - 1)) \div Limb)
        + ((LimbAt(a, 3) * LimbAt(b, c - 2)) \div Limb)
        + ((LimbAt(a, 4) * LimbAt(b, c - 3)) \div Limb)

Column(a, b, c) == ColumnLow(a, b, c) + ColumnHigh(a, b, c - 1)

\* a * b for significands a and b
BigMul(a, b) ==
    BigAdd([c \in 1..(2 * MantLimbs) |-> Column(a, b, c) % Limb],
           [c \in 1..(2 * MantLimbs + 1) |->
               IF c = 1 THEN 0 ELSE Column(a, b, c - 1) \div Limb])

\* Long division of a by d < Limb with `rem` carried in: the limbs of the
\* quotient from the most significant on, then the remainder.
RECURSIVE DivSmallFrom(_, _, _)
DivSmallFrom(a, d, rem) ==
    IF a = <<>> THEN <<rem>>
    ELSE <<(rem * Limb + a[Len(a)]) \div d>>
             \o DivSmallFrom(SubSeq(a, 1, Len(a) - 1), d,
                             (rem * Limb + a[Len(a)]) % d)

Quotient(digits) ==
    [q |-> Trim([i \in 1..(Len(digits) - 1) |-> digits[Len(digits) - i]]),
     r |-> digits[Len(digits)]]

DivSmall(a, d) == Quotient(DivSmallFrom(a, d, 0))

ShiftLeftBy(a, limbs, bits) ==
    Trim([i \in 1..(Len(a) + limbs + 1) |->
            (LimbAt(a, i - limbs) % Pow2(LimbBits - bits)) * Pow2(bits)
                + (LimbAt(a, i - limbs - 1) \div Pow2(LimbBits - bits))])

ShiftLeft(a, k) == ShiftLeftBy(a, k \div LimbBits, k % LimbBits)

\* a shifted right, and whether a one was shifted out
ShiftRightBy(a, limbs, bits) ==
    [q |-> Trim([i \in 1..(Len(a) - limbs) |->
                    (LimbAt(a, i + limbs) \div Pow2(bits))
                        + (LimbAt(a, i + limbs + 1) % Pow2(bits))
                              * Pow2(LimbBits - bits)]),
     sticky |-> \/ \E i \in 1..limbs : LimbAt(a, i) # 0
                \/ LimbAt(a, limbs + 1) % Pow2(bits) # 0]

ShiftRight(a, k) == ShiftRightBy(a, k \div LimbBits, k % LimbBits)

Zero == [neg |-> FALSE, mant |-> <<>>, exp |-> 0]

\* m * 2^e for a significand m of Precision bits, or of one bit more after
\* a carry.
Renormalised(neg, m, e) ==
    IF BitLen(m) > Precision
    THEN [neg |-> neg, mant |-> ShiftRight(m, 1).q, exp |-> e + 1]
    ELSE [neg |-> neg, mant |-> m, exp |-> e]

\* Round half to even: `halves` is the significand and the bit below it,
\* `sticky` whether a one lies below that bit.
RoundHalfEven(neg, halves, e, sticky) ==
    Renormalised(neg,
                 IF IsOdd(halves) /\ (sticky \/ IsOdd(ShiftRight(halves, 1).q))
                 THEN BigAdd(ShiftRight(halves, 1).q, <<1>>)
                 ELSE ShiftRight(halves, 1).q,
                 e)

\* `cut` is n without the bits below the one that decides the rounding.
RoundCut(neg, cut, e, sticky) ==
    RoundHalfEven(neg, cut.q, e, sticky \/ cut.sticky)

RoundBits(neg, n, e, sticky, bits) ==
    IF bits <= Precision
    THEN [neg |-> neg, mant |-> ShiftLeft(n, Precision - bits),
          exp |-> e - (Precision - bits)]
    ELSE RoundCut(neg, ShiftRight(n, bits - Precision - 1), e + (bits - Precision),
                  sticky)

\* The float nearest to n * 2^e, or to a value just above it when sticky.
RoundToFloat(neg, n, e, sticky) ==
    IF n = <<>> THEN Zero ELSE RoundBits(neg, n, e, sticky, BitLen(n))

\* float(n) of an integer n
FloatOf(n) ==
    IF n < 0 THEN RoundToFloat(TRUE, BigOf(0 - n), 0, FALSE)
    ELSE RoundToFloat(FALSE, BigOf(n), 0, FALSE)

\* x / n for an integer 0 < n < Limb
RoundQuotient(neg, whole, e) == RoundToFloat(neg, whole.q, e, whole.r # 0)

FloatOver(x, n) ==
    IF x.mant = <<>> THEN Zero
    ELSE RoundQuotient(x.neg, DivSmall(<<0, 0>> \o x.mant, n),
                       x.exp - 2 * LimbBits)

\* The literal num/den of the source text, and the quotient num / den of
\* two integers.
Decimal(num, den) == FloatOver(FloatOf(num), den)

FloatTimes(x, y) ==
    IF x.mant = <<>> \/ y.mant = <<>> THEN Zero
    ELSE RoundToFloat(x.neg # y.neg, BigMul(x.mant, y.mant), x.exp + y.exp, FALSE)

\* a * 2^e, signed as x, plus b * 2^e, signed as y
PlusAligned(xneg, a, yneg, b, e) ==
    IF xneg = yneg THEN RoundToFloat(xneg, BigAdd(a, b), e, FALSE)
    ELSE IF a = b THEN Zero
    ELSE IF BigLess(a, b) THEN RoundToFloat(yneg, BigSub(b, a), e, FALSE)
    ELSE RoundToFloat(xneg, BigSub(a, b), e, FALSE)

PlusAt(x, y, e) ==
    PlusAligned(x.neg, ShiftLeft(x.mant, x.exp - e),
                y.neg, ShiftLeft(y.mant, y.exp - e), e)

FloatPlus(x, y) ==
    IF y.mant = <<>> THEN x
    ELSE IF x.mant = <<>> THEN y
    ELSE PlusAt(x, y, IF x.exp < y.exp THEN x.exp ELSE y.exp)

FloatMinus(x, y) == FloatPlus(x, [y EXCEPT !.neg = ~y.neg])

\* |x| < |y| for floats other than zero, whose significands have Precision
\* bits
MagnitudeLess(x, y) ==
    x.exp < y.exp \/ (x.exp = y.exp /\ BigLess(x.mant, y.mant))

\* x < y
FloatLess(x, y) ==
    IF x.mant = <<>> THEN y.mant # <<>> /\ ~y.neg
    ELSE IF y.mant = <<>> THEN x.neg
    ELSE IF x.neg # y.neg THEN x.neg
    ELSE IF x.neg THEN MagnitudeLess(y, x)
    ELSE MagnitudeLess(x, y)

\* min(1.0, x), then max(0.0, _)
FloatMin(x, y) == IF FloatLess(y, x) THEN y ELSE x
FloatMax(x, y) == IF FloatLess(x, y) THEN y ELSE x

Clamp(x) == FloatMax(Zero, FloatMin(FloatOf(1), x))

(***************************************************************************)
(* core/truth_engine.py: verify_claim. A source is kept as its type, the   *)
(* reliability_score its dictionary may carry, and what its data says      *)
(* about the claim.                                                        *)
(***************************************************************************)
MaxSources == 3      \* entries of sources_data

SourceTypes == {"primary", "secondary", "tertiary", "verification"}

\* source_data['reliability_score']: absent, or the 0.85 the skills pass
\* for a research aggregation.
ReliabilityScores == {<<>>, <<Decimal(85, 100)>>}

\* What source_data['data'] holds for the claim: the claimed value, another
\* value, or nothing.
Stances == {"supports", "conflicts", "silent"}

SourcesData(n) ==
    UNION {[1..k -> [source_type : SourceTypes,
                     reliability_score : ReliabilityScores,
                     stance : Stances]] : k \in 0..n}

\* TruthEngine.min_confidence: the default 0.2 and the 0.5 the skills pass.
MinConfidences == {Decimal(2, 10), Decimal(5, 10)}

\* self.source_reliability
source_reliability(source_type) ==
    CASE source_type = "primary" -> Decimal(10, 10)
      [] source_type = "secondary" -> Decimal(8, 10)
      [] source_type = "tertiary" -> Decimal(6, 10)
      [] source_type = "verification" -> Decimal(9, 10)

\* TruthEngine._create_source
create_source(source_data) ==
    [source_type |-> source_data.source_type,
     reliability_score |->
         IF source_data.reliability_score # <<>>
         THEN source_data.reliability_score[1]
         ELSE source_reliability(source_data.source_type)]

\* TruthEngine._source_supports_claim
source_supports_claim(source_data) == source_data.stance = "supports"

\* alt_value and alt_value != value
source_conflicts(source_data) == source_data.stance = "conflicts"

CreateSources(data) == [i \in 1..Len(data) |-> create_source(data[i])]

\* sum(reliability_scores): the scores added to 0 from the left
RECURSIVE SumScores(_, _)
SumScores(total, sources) ==
    IF sources = <<>> THEN total
    ELSE SumScores(FloatPlus(total, Head(sources).reliability_score),
                   Tail(sources))

\* if primary_count > 0: weighted_confidence *= 1.1
BoostPrimary(weighted_confidence, primary_count) ==
    IF primary_count > 0 THEN FloatTimes(weighted_confidence, Decimal(11, 10))
    ELSE weighted_confidence

\* if conflicts > 0: weighted_confidence -= conflicts * 0.02
PenaliseConflicts(weighted_confidence, conflicts) ==
    IF conflicts > 0
    THEN FloatMinus(weighted_confidence,
                    FloatTimes(FloatOf(conflicts), Decimal(2, 100)))
    ELSE weighted_confidence

\* if len(supporting_sources) >= 3: weighted_confidence *= 1.05
BoostSeveral(weighted_confidence, count) ==
    IF count >= 3 THEN FloatTimes(weighted_confidence, Decimal(105, 100))
    ELSE weighted_confidence

\* TruthEngine._calculate_confidence
calculate_confidence(supporting_sources, total_sources, conflicts) ==
    IF supporting_sources = <<>> THEN Zero
    ELSE
    LET count == Len(supporting_sources)
        agreement_ratio ==
            Decimal(count, IF total_sources > 1 THEN total_sources ELSE 1)
        avg_reliability == FloatOver(SumScores(Zero, supporting_sources), count)
        weighted_confidence == FloatTimes(agreement_ratio, avg_reliability)
        primary_count ==
            Len(SelectSeq(supporting_sources, LAMBDA x : x.source_type = "primary"))
    IN  Clamp(BoostSeveral(
                PenaliseConflicts(BoostPrimary(weighted_confidence, primary_count),
                                  conflicts),
                count))

\* Conflicts block verification again.
verify_claim_ConflictsBlock(min, data) ==
    LET sources == CreateSources(data)
        supporting_sources == CreateSources(SelectSeq(data, source_supports_claim))
        conflicting_values == CreateSources(SelectSeq(data, source_conflicts))
        confidence == calculate_confidence(supporting_sources, Len(sources),
                                           Len(conflicting_values))
        conflicts == IF conflicting_values # <<>>
                     THEN <<[sources |-> conflicting_values]>> ELSE <<>>
    IN  [returned |-> TRUE,
         verified |-> /\ Len(supporting_sources) > 0
                      /\ ~FloatLess(confidence, min)
                      /\ conflicts = <<>>,
         confidence |-> confidence,
         sources |-> IF supporting_sources # <<>> THEN supporting_sources
                     ELSE sources,
         conflicts |-> conflicts]

\* TruthEngine.verify_claim
verify_claim(min, data) ==
    LET sources == CreateSources(data)
        supporting_sources == CreateSources(SelectSeq(data, source_supports_claim))
        conflicting_values == CreateSources(SelectSeq(data, source_conflicts))
        confidence == calculate_confidence(supporting_sources, Len(sources),
                                           Len(conflicting_values))
        conflicts == IF conflicting_values # <<>>
                     THEN <<[sources |-> conflicting_values]>> ELSE <<>>
    IN  [returned |-> TRUE,
         verified |-> /\ Len(supporting_sources) > 0
                      /\ ~FloatLess(confidence, min),
         confidence |-> confidence,
         sources |-> IF supporting_sources # <<>> THEN supporting_sources
                     ELSE sources,
         conflicts |-> conflicts]

\* A truth engine, and the sources a caller is about to verify a claim with.
TruthInit ==
    /\ analysis_mode = "full"
    /\ max_steps = MaxStepsBound
    /\ progress_callback = FALSE
    /\ entry = "run"
    /\ NotRunning
    /\ tracker = NoTracker
    /\ ExecutorIdle
    /\ StateTimesIdle
    /\ min_confidence \in MinConfidences
    /\ sources_data \in SourcesData(MaxSources)
    /\ fact = [returned |-> FALSE]
    /\ DataIdle

\* fact = truth_engine.verify_claim(claim, value, sources_data)
VerifyClaim ==
    /\ ~fact.returned
    /\ fact' = verify_claim(min_confidence, sources_data)
    /\ UNCHANGED <<fixed, run_vars, tracker, loop_vars, issued, time_vars,
                   min_confidence, sources_data, data_vars>>

TruthNext == VerifyClaim

TruthSpec == TruthInit /\ [][TruthNext]_vars

(***************************************************************************)
(* core/models.py: VerifiedDataset.from_facts. A fact is kept as the       *)
(* fields from_facts reads; a source as its (url, source_name) pair.       *)
(***************************************************************************)
MaxFacts == 2        \* facts given to from_facts

\* Confidence scores, in tenths.
Confidences == {Ratio(2, 10), Ratio(6, 10), Ratio(10, 10)}

SourceNames == {"stripe.com"}

FactValues ==
    [verified : BOOLEAN, confidence : Confidences, has_conflicts : BOOLEAN,
     sources : SUBSET SourceNames]

FactLists(n) == UNION {[1..k -> FactValues] : k \in 0..n}

\* A confidence is a quotient of tenths where a caller wrote it, and the
\* float verify_claim computed where it comes from the truth engine.
IsFloat(x) == "mant" \in DOMAIN x

AsFloat(x) == IF IsFloat(x) THEN x ELSE Decimal(x.num, x.den)

Plus(a, b) ==
    IF IsFloat(a) \/ IsFloat(b) THEN FloatPlus(AsFloat(a), AsFloat(b))
    ELSE Ratio(a.num * b.den + b.num * a.den, a.den * b.den)

\* x / n
Over(x, n) == IF IsFloat(x) THEN FloatOver(x, n) ELSE Ratio(x.num, x.den * n)

\* sum(...), after `total`: the confidences are added to it from the left
RECURSIVE SumFrom(_, _)
SumFrom(total, fs) ==
    IF fs = <<>> THEN total
    ELSE SumFrom(Plus(total, Head(fs).confidence), Tail(fs))

\* sum(f.confidence for f in fs), which starts from 0
SumConfidence(fs) == SumFrom(Ratio(0, 1), fs)

\* all_sources after the two loops
RECURSIVE AllSources(_)
AllSources(fs) ==
    IF fs = <<>> THEN {} ELSE Head(fs).sources \cup AllSources(Tail(fs))

\* The mean is taken over all the facts.
from_facts_MeanOfAll(fs) ==
    LET verified == SelectSeq(fs, LAMBDA f : f.verified)
        unverified == SelectSeq(fs, LAMBDA f : ~f.verified)
        with_conflicts == SelectSeq(fs, LAMBDA f : f.has_conflicts)
    IN  [returned |-> TRUE,
         facts |-> fs,
         overall_confidence |->
             IF fs # <<>>
             THEN Over(SumConfidence(fs), Len(fs))
             ELSE Ratio(0, 1),
         total_sources |-> Cardinality(AllSources(fs)),
         verified_count |-> Len(verified),
         unverified_count |-> Len(unverified),
         conflict_count |-> Len(with_conflicts)]

\* VerifiedDataset.from_facts
from_facts(fs) ==
    LET verified == SelectSeq(fs, LAMBDA f : f.verified)
        unverified == SelectSeq(fs, LAMBDA f : ~f.verified)
        with_conflicts == SelectSeq(fs, LAMBDA f : f.has_conflicts)
    IN  [returned |-> TRUE,
         facts |-> fs,
         overall_confidence |->
             IF verified # <<>>
             THEN Over(SumConfidence(verified), Len(verified))
             ELSE Ratio(0, 1),
         total_sources |-> Cardinality(AllSources(fs)),
         verified_count |-> Len(verified),
         unverified_count |-> Len(unverified),
         conflict_count |-> Len(with_conflicts)]

\* The facts a caller is about to build a dataset from.
DatasetInit ==
    /\ analysis_mode = "full"
    /\ max_steps = MaxStepsBound
    /\ progress_callback = FALSE
    /\ entry = "run"
    /\ NotRunning
    /\ tracker = NoTracker
    /\ ExecutorIdle
    /\ StateTimesIdle
    /\ TruthEngineIdle
    /\ facts \in FactLists(MaxFacts)
    /\ dataset = [returned |-> FALSE]
    /\ datasets = <<>>
    /\ passed = <<>>
    /\ manifest = <<>>

\* dataset = VerifiedDataset.from_facts(entity_name, entity_type, facts)
FromFacts ==
    /\ ~dataset.returned
    /\ dataset' = from_facts(facts)
    /\ UNCHANGED <<fixed, run_vars, tracker, loop_vars, issued, time_vars,
                   truth_vars, facts, datasets, passed, manifest>>

DatasetNext == FromFacts

DatasetSpec == DatasetInit /\ [][DatasetNext]_vars

(***************************************************************************)
(* core/truth_engine.py: TruthEngine.cross_reference over datasets that    *)
(* hold at most the one key "key_facts". A value is a string or a nested   *)
(* dict; the value object of dataset i is datasets[i].data[1], and a claim *)
(* refers to its value by the index of the dataset that owns the object.   *)
(***************************************************************************)
MaxDatasets == 2     \* datasets given to cross_reference

NestedKeys == {"founded", "ceo"}
NestedValues == {"Unknown", "1999"}
Strings == {"", "Unknown", "unknown", "Apple", "Apple."}

\* The characters of the strings above.
Chars(text) ==
    CASE text = "" -> <<>>
      [] text = "Unknown" -> <<"U", "n", "k", "n", "o", "w", "n">>
      [] text = "unknown" -> <<"u", "n", "k", "n", "o", "w", "n">>
      [] text = "Apple" -> <<"A", "p", "p", "l", "e">>
      [] text = "Apple." -> <<"A", "p", "p", "l", "e", ".">>
      [] text = "1999" -> <<"1", "9", "9", "9">>
      [] text = "founded" -> <<"f", "o", "u", "n", "d", "e", "d">>
      [] text = "ceo" -> <<"c", "e", "o">>

\* str.lower of one character
LowerChar(c) ==
    CASE c = "A" -> "a" [] c = "B" -> "b" [] c = "C" -> "c" [] c = "D" -> "d"
      [] c = "E" -> "e" [] c = "F" -> "f" [] c = "G" -> "g" [] c = "H" -> "h"
      [] c = "I" -> "i" [] c = "J" -> "j" [] c = "K" -> "k" [] c = "L" -> "l"
      [] c = "M" -> "m" [] c = "N" -> "n" [] c = "O" -> "o" [] c = "P" -> "p"
      [] c = "Q" -> "q" [] c = "R" -> "r" [] c = "S" -> "s" [] c = "T" -> "t"
      [] c = "U" -> "u" [] c = "V" -> "v" [] c = "W" -> "w" [] c = "X" -> "x"
      [] c = "Y" -> "y" [] c = "Z" -> "z" [] OTHER -> c

\* str.lower
Lower(chars) == [i \in 1..Len(chars) |-> LowerChar(chars[i])]

Str(text) == [type |-> "str", str |-> text, dict |-> <<>>]
DictOf(items) == [type |-> "dict", str |-> "", dict |-> items]

DataValues ==
    {Str(text) : text \in Strings}
        \cup {DictOf(items) :
                items \in UNION {[keys -> NestedValues] : keys \in SUBSET NestedKeys}}

Datasets(n) ==
    UNION {[1..k -> [source_type : {"primary", "secondary"},
                     reliability_score : ReliabilityScores,
                     data : {<<>>} \cup {<<v>> : v \in DataValues}]] : k \in 0..n}

\* v and v != "Unknown" and v != ""
IsReal(v) == v # "" /\ v # "Unknown"

\* sum(1 for v in d.values() if v and v != "Unknown" and v != "")
real_count(d) == Cardinality({k \in DOMAIN d : IsReal(d[k])})

\* merged = existing.copy(); merged[k] = v for the real values of new
Merged(existing, new) ==
    [k \in DOMAIN existing \cup {kk \in DOMAIN new : IsReal(new[kk])} |->
        IF k \in DOMAIN new /\ IsReal(new[k]) THEN new[k] ELSE existing[k]]

\* TruthEngine._is_better_value: what it returns, and the object
\* existing_value refers to when it returns.
is_better_value(new_value, existing_value) ==
    IF existing_value = Str("")
    THEN [better |-> new_value # Str(""), existing |-> existing_value]
    ELSE IF existing_value.type = "dict" /\ new_value.type = "dict"
    THEN LET existing_real_count == real_count(existing_value.dict)
             new_real_count == real_count(new_value.dict)
         IN  IF new_real_count > existing_real_count
             THEN [better |-> TRUE, existing |-> existing_value]
             ELSE IF new_real_count >= existing_real_count
             THEN [better |-> FALSE,
                   existing |-> DictOf(Merged(existing_value.dict, new_value.dict))]
             ELSE [better |-> FALSE, existing |-> existing_value]
    ELSE IF existing_value.type = "str" /\ new_value.type = "str"
    THEN [better |-> /\ Lower(Chars(existing_value.str)) = Chars("unknown")
                     /\ Lower(Chars(new_value.str)) # Chars("unknown"),
          existing |-> existing_value]
    ELSE [better |-> FALSE, existing |-> existing_value]

NoClaim == [found |-> FALSE]

\* TruthEngine._extract_all_claims from dataset j on: the datasets as the
\* loop leaves them, and the claim of the key.
RECURSIVE extract_all_claims(_, _, _)
extract_all_claims(heap, claim, j) ==
    IF j > Len(heap) THEN [datasets |-> heap, claim |-> claim]
    ELSE IF heap[j].data = <<>> THEN extract_all_claims(heap, claim, j + 1)
    ELSE IF ~claim.found
    THEN extract_all_claims(heap, [found |-> TRUE, value |-> j, sources |-> <<j>>],
                            j + 1)
    ELSE LET judged == is_better_value(heap[j].data[1], heap[claim.value].data[1])
             updated == [heap EXCEPT ![claim.value].data = <<judged.existing>>]
         IN  extract_all_claims(updated,
                 [found |-> TRUE,
                  value |-> IF judged.better THEN j ELSE claim.value,
                  sources |-> Append(claim.sources, j)],
                 j + 1)

\* bool(alt_value)
Truthy(v) == IF v.type = "str" THEN v.str # "" ELSE DOMAIN v.dict # {}

\* The keys of a nested dict in the order they were inserted.
KeyOrder == <<"founded", "ceo">>

\* "'text'"
Quoted(text) == <<"'">> \o Chars(text) \o <<"'">>

\* The items of repr(d) from key k of KeyOrder on.
RECURSIVE ReprItems(_, _, _)
ReprItems(d, k, first) ==
    IF k > Len(KeyOrder) THEN <<>>
    ELSE IF KeyOrder[k] \notin DOMAIN d THEN ReprItems(d, k + 1, first)
    ELSE (IF first THEN <<>> ELSE <<",", " ">>)
             \o Quoted(KeyOrder[k]) \o <<":", " ">> \o Quoted(d[KeyOrder[k]])
             \o ReprItems(d, k + 1, FALSE)

\* str(val)
StrOf(v) ==
    IF v.type = "str" THEN Chars(v.str)
    ELSE <<"{">> \o ReprItems(v.dict, 1, TRUE) \o <<"}">>

\* The length of the longest common prefix of a and b.
CommonPrefix(a, b) ==
    CHOOSE k \in 0..(IF Len(a) < Len(b) THEN Len(a) ELSE Len(b)) :
        /\ \A i \in 1..k : a[i] = b[i]
        /\ k < Len(a) /\ k < Len(b) => a[k + 1] # b[k + 1]

\* difflib.SequenceMatcher.find_longest_match over two non-empty strings:
\* the longest common block, the earliest in a and then in b of those.
find_longest_match(a, b) ==
    LET size(m) == CommonPrefix(SubSeq(a, m[1], Len(a)), SubSeq(b, m[2], Len(b)))
        starts == (1..Len(a)) \X (1..Len(b))
        best == CHOOSE m \in starts :
                    \A o \in starts :
                        \/ size(m) > size(o)
                        \/ /\ size(m) = size(o)
                           /\ \/ m[1] < o[1]
                              \/ m[1] = o[1] /\ m[2] <= o[2]
    IN  [a |-> best[1], b |-> best[2], size |-> size(best)]

\* The sizes of SequenceMatcher.get_matching_blocks, added up.
RECURSIVE Matches(_, _)
Matches(a, b) ==
    IF a = <<>> \/ b = <<>> THEN 0
    ELSE LET m == find_longest_match(a, b)
         IN  IF m.size = 0 THEN 0
             ELSE m.size
                    + Matches(SubSeq(a, 1, m.a - 1), SubSeq(b, 1, m.b - 1))
                    + Matches(SubSeq(a, m.a + m.size, Len(a)),
                              SubSeq(b, m.b + m.size, Len(b)))

\* difflib.SequenceMatcher(None, a, b).ratio()
ratio(a, b) ==
    IF Len(a) + Len(b) = 0 THEN FloatOf(1)
    ELSE FloatOver(FloatOf(2 * Matches(a, b)), Len(a) + Len(b))

\* _values_match of two strings, threshold 0.9
strings_match(a, b) ==
    a = b \/ ~FloatLess(ratio(Lower(a), Lower(b)), Decimal(9, 10))

\* TruthEngine._values_match
values_match(val1, val2) ==
    IF val1 = val2 THEN TRUE
    ELSE IF val1.type # val2.type THEN strings_match(StrOf(val1), StrOf(val2))
    ELSE IF val1.type = "str" THEN strings_match(Chars(val1.str), Chars(val2.str))
    ELSE FALSE

\* What verify_claim finds in a source for the value: _source_supports_claim
\* on the direct match, then alt_value and alt_value != value.
StanceOf(source_data, value) ==
    IF source_data.data = <<>> THEN "silent"
    ELSE IF values_match(value, source_data.data[1]) THEN "supports"
    ELSE IF Truthy(source_data.data[1]) THEN "conflicts"
    ELSE "silent"

\* The VerifiedFact fields from_facts reads.
AsFact(f) ==
    [verified |-> f.verified, confidence |-> f.confidence,
     has_conflicts |-> f.conflicts # <<>>,
     sources |-> IF f.sources # <<>> THEN {"Unknown Source"} ELSE {}]

\* TruthEngine.cross_reference: the datasets as it leaves them, and the
\* dataset it returns.
cross_reference(min, ds) ==
    LET all_claims == extract_all_claims(ds, NoClaim, 1)
        heap == all_claims.datasets
        claim_info == all_claims.claim
        sources == IF claim_info.found
                   THEN [i \in 1..Len(claim_info.sources) |->
                            [source_type |-> heap[claim_info.sources[i]].source_type,
                             reliability_score |->
                                 heap[claim_info.sources[i]].reliability_score,
                             stance |-> StanceOf(heap[claim_info.sources[i]],
                                                 heap[claim_info.value].data[1])]]
                   ELSE <<>>
        verified_facts == IF claim_info.found
                          THEN <<AsFact(verify_claim(min, sources))>>
                          ELSE <<>>
    IN  [datasets |-> heap, dataset |-> from_facts(verified_facts)]

\* A truth engine, and the datasets a caller is about to cross-reference;
\* `passed` keeps them as they are at the call.
CrossRefInit ==
    /\ analysis_mode = "full"
    /\ max_steps = MaxStepsBound
    /\ progress_callback = FALSE
    /\ entry = "run"
    /\ NotRunning
    /\ tracker = NoTracker
    /\ ExecutorIdle
    /\ StateTimesIdle
    /\ min_confidence \in MinConfidences
    /\ sources_data = <<>>
    /\ fact = [returned |-> FALSE]
    /\ facts = <<>>
    /\ dataset = [returned |-> FALSE]
    /\ datasets \in Datasets(MaxDatasets)
    /\ passed = datasets
    /\ manifest = <<>>

\* dataset = truth_engine.cross_reference(datasets, entity_name)
CrossReference ==
    /\ ~dataset.returned
    /\ LET call == cross_reference(min_confidence, datasets)
       IN  /\ datasets' = call.datasets
           /\ dataset' = call.dataset
    /\ UNCHANGED <<fixed, run_vars, tracker, loop_vars, issued, time_vars,
                   truth_vars, facts, passed, manifest>>

CrossRefNext == CrossReference

CrossRefSpec == CrossRefInit /\ [][CrossRefNext]_vars

(***************************************************************************)
(* utils/session_manager.py: the manifest of one company, and the updates  *)
(* app.py makes to its sessions. A key a session may lack is kept as a     *)
(* sequence, empty when the key is absent.                                 *)
(***************************************************************************)
MaxSessions == 3     \* sessions created for the company

\* SessionManager.create_session: the session it appends.
NewSession(session_id) ==
    [session_id |-> session_id, status |-> "running", error |-> <<>>,
     completed_at |-> <<>>, frameworks_added |-> <<>>]

create_session(m) == Append(m, NewSession(Len(m) + 1))

NoUpdates == [status |-> <<>>, error |-> <<>>, completed_at |-> <<>>,
              frameworks_added |-> <<>>]

\* The updates app.py passes when run() returned an error or raised.
FailedUpdates(t) ==
    [NoUpdates EXCEPT !.status = <<"failed">>, !.error = <<"error">>,
                      !.completed_at = <<t>>]

\* The updates app.py passes when the analysis succeeded.
CompletedUpdates(t) ==
    [NoUpdates EXCEPT !.status = <<"completed">>, !.completed_at = <<t>>]

\* The updates app.py passes after frameworks were added to an analysis.
FrameworksUpdates == [NoUpdates EXCEPT !.frameworks_added = <<"swot">>]

\* session.update(updates)
DictUpdate(session, updates) ==
    [session EXCEPT !.status = IF updates.status # <<>> THEN updates.status[1] ELSE @,
                    !.error = IF updates.error # <<>> THEN updates.error ELSE @,
                    !.completed_at =
                        IF updates.completed_at # <<>> THEN updates.completed_at ELSE @,
                    !.frameworks_added =
                        IF updates.frameworks_added # <<>> THEN updates.frameworks_added
                        ELSE @]

\* SessionManager.update_session
update_session(m, session_id, updates) ==
    IF \E i \in 1..Len(m) : m[i].session_id = session_id
    THEN LET i == CHOOSE k \in 1..Len(m) :
                    /\ m[k].session_id = session_id
                    /\ \A j \in 1..(k - 1) : m[j].session_id # session_id
             updated == DictUpdate(m[i], updates)
         IN  [m EXCEPT ![i] = IF updates.completed_at # <<>>
                              THEN [updated EXCEPT !.status = "completed"]
                              ELSE updated]
    ELSE m

\* A session manager without sessions.
SessionInit ==
    /\ analysis_mode = "full"
    /\ max_steps = MaxStepsBound
    /\ progress_callback = FALSE
    /\ entry = "run"
    /\ NotRunning
    /\ tracker = NoTracker
    /\ ExecutorIdle
    /\ StateTimesIdle
    /\ TruthEngineIdle
    /\ DataIdle

\* session = session_manager.create_session(company_name, user_context)
CreateSession ==
    /\ Len(manifest) < MaxSessions
    /\ manifest' = create_session(manifest)
    /\ UNCHANGED <<fixed, run_vars, tracker, loop_vars, issued, time_vars,
                   truth_vars, facts, dataset, datasets, passed>>

\* run() returned an error, or raised: the app records the failure.
AnalysisFailed ==
    /\ \E i \in 1..Len(manifest), t \in 1..MaxClock :
         /\ manifest[i].status = "running"
         /\ manifest' = update_session(manifest, manifest[i].session_id,
                                       FailedUpdates(t))
    /\ UNCHANGED <<fixed, run_vars, tracker, loop_vars, issued, time_vars,
                   truth_vars, facts, dataset, datasets, passed>>

\* The analysis succeeded: the app records the completion.
AnalysisCompleted ==
    /\ \E i \in 1..Len(manifest), t \in 1..MaxClock :
         /\ manifest[i].status = "running"
         /\ manifest' = update_session(manifest, manifest[i].session_id,
                                       CompletedUpdates(t))
    /\ UNCHANGED <<fixed, run_vars, tracker, loop_vars, issued, time_vars,
                   truth_vars, facts, dataset, datasets, passed>>

\* Frameworks were added to an existing analysis.
FrameworksAdded ==
    /\ \E i \in 1..Len(manifest) :
         /\ manifest[i].status # "running"
         /\ manifest[i].frameworks_added = <<>>
         /\ manifest' = update_session(manifest, manifest[i].session_id,
                                       FrameworksUpdates)
    /\ UNCHANGED <<fixed, run_vars, tracker, loop_vars, issued, time_vars,
                   truth_vars, facts, dataset, datasets, passed>>

SessionNext ==
    CreateSession \/ AnalysisFailed \/ AnalysisCompleted \/ FrameworksAdded

SessionSpec == SessionInit /\ [][SessionNext]_vars

(***************************************************************************)
(* Properties.                                                             *)
(***************************************************************************)
Terminal == {"completed", "failed"}
Phase1Pcs == {"p1_plan", "p1_loop", "p1_exec", "p1_validate"}
Phase2Pcs == {"p2_plan", "p2_loop", "p2_exec", "p2_validate"}
HasPhase2Task(ts) == \E i \in 1..Len(ts) : ts[i].phase = "phase2"

\* C1: in the steps of a run a task whose status is completed or failed
\* never changes to pending or in_progress, whatever plan the planner
\* returned.
C1_TerminalStatusIsFinal ==
    [][pc # "run" =>
          \A i \in 1..Len(tasks) :
              tasks[i].status \in Terminal => tasks'[i].status \in Terminal]_vars

\* C2: every dependency of a completed task is the id of a completed task.
C2_CompletedDependencies ==
    \A i \in 1..Len(tasks) :
        tasks[i].status = "completed" =>
            \A dep_id \in tasks[i].dependencies :
                \E j \in 1..Len(tasks) :
                    tasks[j].id = dep_id /\ tasks[j].status = "completed"

\* C3: the tasks handed to the executor in one run, both phases together,
\* never outnumber max_steps, and once current_step has reached max_steps no
\* task becomes in_progress.
C3_StepBudget ==
    [][/\ Len(ran') <= max_steps
       /\ (pc # "run" /\ current_step >= max_steps) =>
            \A i \in 1..Len(tasks) :
                tasks'[i].status = "in_progress" => tasks[i].status = "in_progress"]_vars

\* C3 witness: a full run returned after Phase 2 stopped at the step limit
\* with a task that was due and stays pending, Phase 1 having used the budget.
C3_Witness ==
    /\ pc = "done"
    /\ "analysis_type" \in DOMAIN envelope
    /\ current_phase = "phase2"
    /\ idx <= Len(plan)
    /\ check_dependencies_met(plan[idx], completed_task_ids)
    /\ tasks[get_task(tasks, plan[idx].id)].status = "pending"
    /\ max_steps > 0
    /\ current_step = max_steps
    /\ Len(ran) = max_steps
    /\ \A k \in 1..Len(ran) : ran[k].phase = "phase1"

\* C4: in every envelope that carries a summary, tasks.total equals
\* tasks.completed + tasks.failed + tasks.pending.
C4_SummaryCountsAddUp ==
    "summary" \in DOMAIN envelope =>
        LET t == envelope.summary.tasks
        IN t.total = t.completed + t.failed + t.pending

CompletedInSlot(ts, phase, slot) ==
    {i \in 1..Len(ts) :
        /\ ts[i].phase = phase
        /\ ts[i].status = "completed"
        /\ slot = IF phase = "phase1" THEN Phase1Slot(ts[i].skill)
                                       ELSE Phase2Slot(ts[i].skill)}

\* C5: a slot key is in phase1 or phase2 of the returned envelope only if
\* exactly one completed task stored its payload there.
C5_SlotsHaveOneCompletedTask ==
    (pc = "done" /\ "phase2" \in DOMAIN envelope) =>
        /\ \A slot \in DOMAIN envelope.phase2 :
              Cardinality(CompletedInSlot(tasks, "phase2", slot)) = 1
        /\ analysis_mode # "frameworks" =>
              \A slot \in DOMAIN envelope.phase1 :
                  Cardinality(CompletedInSlot(tasks, "phase1", slot)) = 1

\* C6: a task whose skill returned success=false or raised ends failed with
\* a non-empty error.
C6_SkillFailureFailsTask ==
    [][(pc \in {"p1_validate", "p2_validate"} /\ outcome \in {"unsuccessful", "raises"}) =>
          LET i == get_task(tasks, plan[idx].id)
          IN tasks'[i].status = "failed" /\ tasks'[i].error # None]_vars

\* C7: a frameworks-only run on an orchestrator whose Phase-1 context is the
\* freshly constructed one returns an error, and no Phase-2 task is planned,
\* added or executed.
C7_FrameworksNeedPhase1 ==
    (analysis_mode = "frameworks" /\ phase1_context = InitPhase1Context) =>
        /\ pc \in {"run", "done"}
        /\ tasks = <<>>
        /\ ran = <<>>
        /\ pc = "done" => "error" \in DOMAIN envelope

\* C8: in full mode, when no Phase-1 task reached completed, run returns an
\* error and no Phase-2 task is planned or executed.
C8_Phase1FailureAborts ==
    ( /\ analysis_mode = "full"
      /\ pc \notin {"run"} \cup Phase1Pcs
      /\ \A i \in 1..Len(tasks) :
            tasks[i].phase = "phase1" => tasks[i].status # "completed" ) =>
        /\ pc = "done"
        /\ "error" \in DOMAIN envelope
        /\ ~HasPhase2Task(tasks)

\* run_phase2 has started a task of its plan: the task has left pending in
\* the registry, or was handed to the executor.
Phase2TaskStarted ==
    \/ \E i \in 1..Len(tasks) : tasks[i].phase = "phase2" /\ tasks[i].status # "pending"
    \/ \E k \in 1..Len(ran) : ran[k].phase = "phase2"

\* C9: in full mode no Phase-2 task is in the registry while run_phase1 is
\* running, and once run_phase2 has started a Phase-2 task no Phase-1 task
\* changes status.
C9_Phase1BeforePhase2 ==
    [][analysis_mode = "full" =>
          /\ pc' \in Phase1Pcs => ~HasPhase2Task(tasks')
          /\ Phase2TaskStarted =>
                \A i \in 1..Len(tasks) :
                    tasks[i].phase = "phase1" => tasks'[i].status = tasks[i].status]_vars

\* C10: in business-overview mode no Phase-2 task is planned, added or
\* executed, and every returned envelope has phase2 = {} and analysis_type
\* "business_overview".
C10_Original ==
    analysis_mode = "business_overview" =>
        /\ pc \notin Phase2Pcs
        /\ ~HasPhase2Task(tasks)
        /\ \A k \in 1..Len(ran) : ran[k].phase = "phase1"
        /\ pc = "done" =>
              /\ "phase2" \in DOMAIN envelope
              /\ envelope.phase2 = EmptyMap
              /\ envelope.analysis_type = "business_overview"

\* C11: the ids of the tasks in the registry are pairwise distinct (add_task
\* with an id already present leaves the task list unchanged).
C11_RegistryIdsDistinct ==
    \A i, j \in 1..Len(tasks) : i # j => tasks[i].id # tasks[j].id

\* The progress events emitted for one task id, in order.
EventsFor(task_id) == SelectSeq(events, LAMBDA e : e.task_id = task_id)

\* in_progress at Task level, in_progress at Skill level, one terminal event
\* at Task level, or a prefix of that.
TaskEventPrefix(evs) ==
    /\ Len(evs) <= 3
    /\ Len(evs) >= 1 => evs[1].status = "in_progress" /\ evs[1].level = "task"
    /\ Len(evs) >= 2 => evs[2].status = "in_progress" /\ evs[2].level = "skill"
    /\ Len(evs) >= 3 => evs[3].status \in Terminal /\ evs[3].level = "task"

\* C12: for every task id the events emitted for it are a prefix of
\* in_progress (Task), in_progress (Skill), completed or failed (Task), and
\* none follows the terminal event.
C12_EventOrderPerTask ==
    \A task_id \in UsedIds(tasks) : TaskEventPrefix(EventsFor(task_id))

\* A completed event for this task id is among the events.
CompletedEventEmitted(evs, task_id) ==
    \E j \in 1..Len(evs) : evs[j].task_id = task_id /\ evs[j].status = "completed"

\* C13: whenever progress events are emitted for a task B, a completed event
\* was emitted earlier for every task id A among B's dependencies.
C13_DependencyEventsFirst ==
    [][events' # events =>
          /\ \A k \in (Len(events) + 1)..Len(events') :
                events'[k].task_id = plan[idx].id
          /\ \A dep_id \in plan[idx].dependencies :
                CompletedEventEmitted(events, dep_id)]_vars

\* C13 witness: events were emitted for a task that lists a dependency.
C13_Witness ==
    /\ pc \in {"p1_exec", "p2_exec"}
    /\ plan[idx].dependencies # {}
    /\ plan[idx].id \notin plan[idx].dependencies
    /\ Len(EventsFor(plan[idx].id)) = 2

\* C14: every status snapshot of the progress tracker reports a
\* progress_percent of at most 100.
C14_ProgressAtMost100 ==
    AtMost(get_status(tracker).progress_percent, 100)

\* The last n entries of seq exist and are one and the same.
SameLastN(seq, n) ==
    /\ Len(seq) >= n
    /\ \A i \in (Len(seq) - n + 1)..Len(seq) : seq[i] = seq[Len(seq)]

\* C15: when the skill performed the identical action four times in a row
\* within the task, execute_task returns a failure whose error is Loop.
C15_LoopFailsTask ==
    (pc = "returned" /\ SameLastN(issued, 4)) =>
        (result.success = FALSE /\ result.error = "Loop")

\* C16: detect_loop returns true exactly when at least four signatures were
\* recorded since the last reset and the last four of them are identical, and
\* the window never holds more than five entries.
C16_LoopDetectedExactly ==
    /\ Len(recorded) > 0 => (detected <=> SameLastN(recorded, 4))
    /\ Len(recent_actions) <= 5

\* C16 witness: a loop is detected after the window was cut to its last five
\* entries, the entry that fell out being a different signature.
C16_Witness ==
    /\ detected
    /\ Len(recorded) = 6
    /\ recorded[1] # recorded[6]
    /\ Len(recent_actions) = 5

\* C17: a task whose skill returned {success: true, data: ""} is rejected by
\* the validator and ends failed with a non-empty feedback, the step counter
\* having been incremented by one for it.
C17_EmptyDataRejected ==
    [][(pc \in {"p1_validate", "p2_validate"} /\ outcome = "empty_data") =>
          LET i == get_task(tasks, plan[idx].id)
          IN  /\ tasks'[i].status = "failed"
              /\ tasks'[i].error # None
              /\ current_step' = Len(ran)]_vars

\* C18: save_state, load_state into a fresh state manager and save_state
\* again write a second state file, and it equals the first one, timestamps
\* included.
C18_SaveLoadSaveSameFile ==
    files # <<>> => Len(files) = 2 /\ files[2] = files[1]

\* C19: every task of the registry with started_at and completed_at both
\* set has started_at <= completed_at, however often update_task_status was
\* applied to its id.
C19_StartedBeforeCompleted ==
    \A i \in 1..Len(stamps) :
        (stamps[i].started_at # Unset /\ stamps[i].completed_at # Unset) =>
            stamps[i].started_at[1] <= stamps[i].completed_at[1]

\* Two tasks of one id were started and ended: update_task_status was
\* applied four times to the id, and the task found under it was started
\* before the clock moved and ended after.
C19_Witness ==
    \E i \in 1..Len(stamps) :
        /\ stamps[i].started_at # Unset
        /\ stamps[i].completed_at # Unset
        /\ stamps[i].started_at[1] < stamps[i].completed_at[1]
        /\ Cardinality({k \in 1..Len(ran) : ran[k].id = tasks[i].id}) >= 2
        /\ pc \in {"p1_loop", "p2_loop"}

\* C20: verify_claim returns verified = true exactly when at least one of
\* the sources supports the claim and the confidence it computed is at least
\* min_confidence, whether or not other sources conflict; a verified fact has
\* a non-empty sources list.
C20_VerifiedExactly ==
    fact.returned =>
        /\ fact.verified <=>
              /\ \E i \in 1..Len(sources_data) : sources_data[i].stance = "supports"
              /\ ~FloatLess(fact.confidence, min_confidence)
        /\ fact.verified => fact.sources # <<>>

\* C20 witness: a fact is verified although a source conflicts with it.
C20_Witness ==
    /\ fact.returned
    /\ fact.verified
    /\ fact.conflicts # <<>>
    /\ fact.sources # <<>>

\* The tenths of confidence of the facts at these positions, added up.
RECURSIVE TenthsAt(_, _)
TenthsAt(fs, positions) ==
    IF positions = {} THEN 0
    ELSE LET i == CHOOSE j \in positions : TRUE
         IN  fs[i].confidence.num + TenthsAt(fs, positions \ {i})

\* C21: the dataset's overall_confidence is the mean confidence of the facts
\* with verified = true, and 0 when no fact is verified.
C21_MeanOfVerified ==
    dataset.returned =>
        LET positions == {i \in 1..Len(facts) : facts[i].verified}
            overall == dataset.overall_confidence
        IN  IF positions = {}
            THEN overall.num = 0
            ELSE overall.num * 10 * Cardinality(positions)
                    = TenthsAt(facts, positions) * overall.den

\* C21 witness: a dataset built from a verified and an unverified fact of
\* different confidence.
C21_Witness ==
    /\ dataset.returned
    /\ Len(facts) = 2
    /\ facts[1].verified /\ ~facts[2].verified
    /\ facts[1].confidence # facts[2].confidence
    /\ dataset.verified_count = 1

\* C22: the task list a planner call returned has pairwise distinct ids, and
\* every dependency of a task is the id of a task earlier in the list.
C22_PlanWellFormed ==
    /\ \A i, j \in 1..Len(plan) : i # j => plan[i].id # plan[j].id
    /\ \A i \in 1..Len(plan) :
          \A dep_id \in plan[i].dependencies :
              \E j \in 1..(i - 1) : plan[j].id = dep_id

\* C23: after a cancelled run every task has a terminal status, those that
\* had none before carrying the error Cancelled, the state has been saved and
\* run has returned an envelope with an error.
C23_CancelFailsOutstanding ==
    pc = "interrupted" =>
        /\ \A i \in 1..Len(tasks) : tasks[i].status \in {"completed", "failed"}
        /\ files # <<>>
        /\ envelope.returned /\ "error" \in DOMAIN envelope

\* C24: the estimate reads "Calculating..." as long as no duration of a
\* completed task is recorded, and "Almost done..." whenever
\* total_tasks - completed - failed is 0 or less.
C24_EtaTexts ==
    LET eta == get_estimated_time_remaining(tracker)
        remaining == tracker.total_tasks - tracker.completed_tasks
                        - tracker.failed_tasks
    IN  /\ tracker.task_durations = <<>> => eta.text = "Calculating..."
        /\ remaining <= 0 => eta.text = "Almost done..."

\* C25: when cross_reference has returned, the datasets it was given are what
\* they were at the call, the nested dict values in them included.
C25_InputsUnchanged == dataset.returned => datasets = passed

\* Where the registry holds the task at `index` of the plan of `phase`:
\* after the tasks load_state restored, the Phase-1 plan is added first, the
\* Phase-2 plan after it.
RegistryIndex(phase, index) ==
    IF phase = "phase1" THEN restored + index
    ELSE restored
         + Cardinality({j \in (restored + 1)..Len(tasks) : tasks[j].phase = "phase1"})
         + index

\* The registry's task i is pending and was never handed to the executor.
NeverRan(i) ==
    /\ i <= Len(tasks)
    /\ tasks[i].status = "pending"
    /\ \A k \in 1..Len(ran) : RegistryIndex(ran[k].phase, ran[k].index) # i

\* The places, phase and index in the plan, of the tasks handed to the
\* executor.
RanPlaces == {<<ran[k].phase, ran[k].index>> : k \in 1..Len(ran)}

\* C26: a task of the current plan that the loop has passed without handing
\* it to the executor, its dependencies being unmet at its turn, is pending
\* in the registry, whatever was completed after it.
C26_SkippedStaysPending ==
    \A i \in 1..Len(plan) :
        (i < idx /\ <<plan[i].phase, i>> \notin RanPlaces) =>
            NeverRan(RegistryIndex(plan[i].phase, i))

InProgress(ts) == {i \in 1..Len(ts) : ts[i].status = "in_progress"}

\* C27: at most one task of the registry is in_progress, and when a task
\* becomes in_progress every task handed to the executor before it, each at
\* its own place in the registry, is completed or failed.
C27_OneTaskAtATime ==
    [][/\ Cardinality(InProgress(tasks')) <= 1
       /\ InProgress(tasks') \ InProgress(tasks) # {} =>
             \A k \in 1..Len(ran) :
                 tasks[RegistryIndex(ran[k].phase, ran[k].index)].status \in Terminal]_vars

\* The registry tasks whose status is `status`.
WithStatus(ts, status) == {i \in 1..Len(ts) : ts[i].status = status}

\* C28: once the phases run, a step that changes phase1_context or
\* phase2_context marks a task completed; a step that marks a task failed,
\* or skips one, changes neither; and phase1_context changes in Phase 1 only.
C28_ContextWrites ==
    [][pc # "run" =>
       /\ (phase1_context' # phase1_context \/ phase2_context' # phase2_context) =>
             WithStatus(tasks', "completed") \ WithStatus(tasks, "completed") # {}
       /\ WithStatus(tasks', "failed") \ WithStatus(tasks, "failed") # {} =>
             UNCHANGED <<phase1_context, phase2_context>>
       /\ (pc = pc' /\ idx' = idx + 1) =>
             UNCHANGED <<phase1_context, phase2_context>>
       /\ phase1_context' # phase1_context => pc = "p1_validate"]_vars

\* Phase 2 has stored a payload, after a task was skipped or failed with the
\* contexts as they were.
C28_Witness ==
    /\ phase2_context # InitPhase2Context
    /\ current_phase = "phase2"
    /\ WithStatus(tasks, "completed") # {}
    /\ WithStatus(tasks, "failed") \cup WithStatus(tasks, "pending") # {}

\* C29: a session the app updated with status 'failed' and completed_at,
\* which is the update that leaves an error in it, has status 'failed'.
C29_FailedStaysFailed ==
    \A i \in 1..Len(manifest) :
        manifest[i].error # <<>> => manifest[i].status = "failed"

\* C30: when every call returns, run ends; no planned task is handed to the
\* executor twice; and no task is in_progress once run has returned.
C30_RunTerminates ==
    /\ <>(pc = "done")
    /\ [](Cardinality(RanPlaces) = Len(ran))
    /\ [](pc = "done" => InProgress(tasks) = {})

=============================================================================
